---- MODULE Spec2Model ----
(***************************************************************************)
(* A model of package pseudo (Hochbaum's pseudoflow max-flow solver):      *)
(* the Session, its loaders, simpleInitialization, flowPhaseOne,           *)
(* recoverFlow and result, translated from src/pseudo.go.                  *)
(*                                                                         *)
(* Pointers are numbers: a *node is the node's number (1..numNodes), an    *)
(* *arc is the arc's position in arcList (1..numArcs, the Go index + 1),   *)
(* and nil is 0.  strongRoots, labelCount and outOfTree keep Go's 0-based  *)
(* indices.  A Go panic (index out of range, nil dereference) and a loop   *)
(* that exceeds Fuel iterations are recorded in the Session's `fault`; a   *)
(* read of outOfTree[nextArc] at or past numberOutOfTree sets `stale`.     *)
(* Neither is a field of the Go Session.                                   *)
(***************************************************************************)
EXTENDS Integers, Sequences, FiniteSets, TLC

\* ------------------------------------------------------------------ bounds
\* the graphs of Graphs have at most MaxNodes nodes and capacities 0..MaxCap
MaxNodes == 4
MaxCap == 2
\* the Run calls made on one Session
MaxSolves == 2
\* the iterations a loop of the solver is followed for
Fuel == 60
\* the length of the lists quickSort is applied to on its own
MaxArcs == 7
\* the insertions made into a bucket on its own
MaxInserts == 6
\* the writes a failing io.Writer accepts at most before it fails
MaxWrites == 12

\* --------------------------------------------------------------- the types
nil == 0

Min(a, b) == IF a < b THEN a ELSE b

\* arc{direction: 1}: the other fields are Go zero values
arcDirection1 == [from |-> nil, to |-> nil, flow |-> 0, capacity |-> 0, direction |-> 1]

newNode(number) ==
    [arcToParent |-> nil, childList |-> nil, excess |-> 0, label |-> 0,
     next |-> nil, nextArc |-> 0, nextScan |-> nil, numAdjacent |-> 0,
     number |-> number, numberOutOfTree |-> 0, outOfTree |-> << >>,
     parent |-> nil, visited |-> 0]

newRoot == [start |-> nil, end |-> nil]

statistics == [Pushes |-> 0, Mergers |-> 0, Relabels |-> 0, Gaps |-> 0, ArcScans |-> 0]

\* NewSession(c): the cursor of the selected policy is 1, the other one 0
NewSession(c) ==
    [ctx |-> c,
     lowestStrongLabel |-> IF c.LowestLabel THEN 1 ELSE 0,
     highestStrongLabel |-> IF c.LowestLabel THEN 0 ELSE 1,
     adjacencyList |-> << >>, strongRoots |-> << >>, arcList |-> << >>,
     labelCount |-> << >>,
     numNodes |-> 0, numArcs |-> 0, source |-> 0, sink |-> 0,
     stats |-> statistics,
     fault |-> "", stale |-> FALSE]

\* a panic or a runaway loop: the first one sticks
Fail(S, what) == IF S.fault = "" THEN [S EXCEPT !.fault = what] ELSE S

\* uint decrement and increment; a wrapped value 2^64 - k is kept as -k, so
\* that "== 0" and "> 0" on it read x = 0 and x # 0
UDec(x) == x - 1
UInc(x) == x + 1
UPos(x) == x # 0

Stat(S, f) == [S EXCEPT !.stats[f] = @ + 1]

\* ------------------------------------------------------------ the loaders
\* (*node) addOutOfTreeNode: outOfTree[numberOutOfTree] = out; numberOutOfTree++
addOutOfTreeNode(S, n, out) ==
    IF S.fault # "" THEN S
    ELSE LET nd == S.adjacencyList[n] IN
         IF nd.numberOutOfTree >= Len(nd.outOfTree) THEN Fail(S, "index: outOfTree")
         ELSE [S EXCEPT !.adjacencyList[n].outOfTree[nd.numberOutOfTree + 1] = out,
                        !.adjacencyList[n].numberOutOfTree = @ + 1]

\* (*node) createOutOfTree: make([]*arc, numAdjacent)
createOutOfTree(S, n) ==
    [S EXCEPT !.adjacencyList[n].outOfTree = [k \in 1..S.adjacencyList[n].numAdjacent |-> nil]]

\* the allocation made for the 'p' record
Allocate(S, numNodes, numArcs) ==
    [S EXCEPT !.numNodes = numNodes, !.numArcs = numArcs,
              !.adjacencyList = [i \in 1..numNodes |-> newNode(i)],
              !.strongRoots = [i \in 0..(numNodes - 1) |-> newRoot],
              !.labelCount = [i \in 0..(numNodes - 1) |-> 0],
              !.arcList = [i \in 1..numArcs |-> arcDirection1]]

\* the 'a' records placed in the order of the file, at arcList[first++]
RECURSIVE PlaceArcsInOrder(_, _, _, _, _)
PlaceArcsInOrder(S, arcs, k, first, last) ==
    IF k > Len(arcs) \/ S.fault # "" THEN S
    ELSE LET a == arcs[k] IN
         IF first >= S.numArcs THEN Fail(S, "index: arcList")
         ELSE PlaceArcsInOrder(
                [S EXCEPT !.arcList[first + 1].from = a.From,
                          !.arcList[first + 1].to = a.To,
                          !.arcList[first + 1].capacity = a.Capacity,
                          !.adjacencyList[a.From].numAdjacent = @ + 1,
                          !.adjacencyList[a.To].numAdjacent = @ + 1],
                arcs, k + 1, first + 1, last)

\* one 'a' record: the arc goes to arcList[first++] when from+to is odd and to
\* arcList[last--] otherwise (first and last are Go indices)
RECURSIVE PlaceArcs(_, _, _, _, _)
PlaceArcs(S, arcs, k, first, last) ==
    IF k > Len(arcs) \/ S.fault # "" THEN S
    ELSE LET a == arcs[k]
             odd == (a.From + a.To) % 2 # 0
             at == IF odd THEN first ELSE last
         IN  IF at < 0 \/ at >= S.numArcs THEN Fail(S, "index: arcList")
             ELSE PlaceArcs(
                    [S EXCEPT !.arcList[at + 1].from = a.From,
                              !.arcList[at + 1].to = a.To,
                              !.arcList[at + 1].capacity = a.Capacity,
                              !.adjacencyList[a.From].numAdjacent = @ + 1,
                              !.adjacencyList[a.To].numAdjacent = @ + 1],
                    arcs, k + 1,
                    IF odd THEN first + 1 ELSE first,
                    IF odd THEN last ELSE last - 1)

RECURSIVE CreatePools(_, _)
CreatePools(S, i) ==
    IF i > S.numNodes THEN S ELSE CreatePools(createOutOfTree(S, i), i + 1)

\* the distribution with the arc from the source to the sink left at flow 0
RECURSIVE DistributeUnsaturated(_, _)
DistributeUnsaturated(S, i) ==
    IF i > S.numArcs \/ S.fault # "" THEN S
    ELSE LET to == S.arcList[i].to
             from == S.arcList[i].from
         IN  IF from = nil \/ to = nil THEN Fail(S, "nil: arc")
             ELSE IF ~(S.source = to \/ S.sink = from \/ from = to)
             THEN IF S.source = from /\ to = S.sink
                  THEN DistributeUnsaturated(S, i + 1)
                  ELSE IF from = S.source \/ to # S.sink
                  THEN DistributeUnsaturated(addOutOfTreeNode(S, from, i), i + 1)
                  ELSE DistributeUnsaturated(addOutOfTreeNode(S, to, i), i + 1)
             ELSE DistributeUnsaturated(S, i + 1)

\* the distribution with the self-loops placed in the pool of their node
RECURSIVE DistributeSelfLoops(_, _)
DistributeSelfLoops(S, i) ==
    IF i > S.numArcs \/ S.fault # "" THEN S
    ELSE LET to == S.arcList[i].to
             from == S.arcList[i].from
             capacity == S.arcList[i].capacity
         IN  IF from = nil \/ to = nil THEN Fail(S, "nil: arc")
             ELSE IF ~(S.source = to \/ S.sink = from)
             THEN IF S.source = from /\ to = S.sink
                  THEN DistributeSelfLoops([S EXCEPT !.arcList[i].flow = capacity], i + 1)
                  ELSE IF from = S.source \/ to # S.sink
                  THEN DistributeSelfLoops(addOutOfTreeNode(S, from, i), i + 1)
                  ELSE DistributeSelfLoops(addOutOfTreeNode(S, to, i), i + 1)
             ELSE DistributeSelfLoops(S, i + 1)

\* the distribution of the arcs over the out-of-tree pools
RECURSIVE Distribute(_, _)
Distribute(S, i) ==
    IF i > S.numArcs \/ S.fault # "" THEN S
    ELSE LET to == S.arcList[i].to
             from == S.arcList[i].from
             capacity == S.arcList[i].capacity
         IN  IF from = nil \/ to = nil THEN Fail(S, "nil: arc")
             ELSE IF ~(S.source = to \/ S.sink = from \/ from = to)
             THEN IF S.source = from /\ to = S.sink
                  THEN Distribute([S EXCEPT !.arcList[i].flow = capacity], i + 1)
                  ELSE IF from = S.source \/ to # S.sink
                  THEN Distribute(addOutOfTreeNode(S, from, i), i + 1)
                  ELSE IF to = S.sink
                  THEN Distribute(addOutOfTreeNode(S, to, i), i + 1)
                  ELSE Distribute(addOutOfTreeNode(S, from, i), i + 1)
             ELSE Distribute(S, i + 1)

\* (s *Session) readDimacsFile(fh) on the text of graph g
readDimacsFile(S, g) ==
    LET S1 == Allocate(S, g.numNodes, g.numArcs)
        S2 == PlaceArcs(S1, g.arcs, 1, 0, g.numArcs - 1)
        S3 == [S2 EXCEPT !.source = g.source, !.sink = g.sink]
    IN  Distribute(CreatePools(S3, 1), 1)

\* (s *Session) parseNA(nn, na, n, a) on the N and A slices of graph g: the
\* allocation, the placement of the arcs and the distribution are the code of
\* readDimacsFile
parseNA(S, g) ==
    LET S1 == Allocate(S, g.numNodes, g.numArcs)
        S2 == PlaceArcs([S1 EXCEPT !.source = g.source, !.sink = g.sink],
                        g.arcs, 1, 0, g.numArcs - 1)
    IN  Distribute(CreatePools(S2, 1), 1)

\* (si *SessionInitializer) Complete(): the pools and the distribution
Complete(S) == Distribute(CreatePools(S, 1), 1)

\* NewSessionInitializer(s), Init(numNodes, numArcs), SetSource, SetSink, one
\* AddArc per arc of graph g, Complete()
SessionInitializer(S, g) ==
    LET S1 == Allocate(S, g.numNodes, g.numArcs)
        S2 == [S1 EXCEPT !.source = g.source, !.sink = g.sink]
    IN  Complete(PlaceArcs(S2, g.arcs, 1, 0, g.numArcs - 1))

\* addToStrongBucket taking a FIFO bucket for empty when end is nil
addToStrongBucketByEnd(S, n, b) ==
    IF S.fault # "" THEN S
    ELSE IF b \notin DOMAIN S.strongRoots THEN Fail(S, "index: strongRoots")
    ELSE IF S.ctx.FifoBuckets
    THEN IF S.strongRoots[b].end # nil
         THEN [S EXCEPT !.adjacencyList[S.strongRoots[b].end].next = n,
                        !.strongRoots[b].end = n,
                        !.adjacencyList[n].next = nil]
         ELSE [S EXCEPT !.strongRoots[b].start = n,
                        !.strongRoots[b].end = n,
                        !.adjacencyList[n].next = nil]
    ELSE [S EXCEPT !.adjacencyList[n].next = S.strongRoots[b].start,
                   !.strongRoots[b].start = n]

\* ------------------------------------------------------ the bucket manager
\* addToStrongBucket(n, s.strongRoots[b]): evaluating s.strongRoots[b] panics
\* when b is not an index of strongRoots
addToStrongBucket(S, n, b) ==
    IF S.fault # "" THEN S
    ELSE IF b \notin DOMAIN S.strongRoots THEN Fail(S, "index: strongRoots")
    ELSE IF S.ctx.FifoBuckets
    THEN IF S.strongRoots[b].start # nil
         THEN IF S.strongRoots[b].end = nil THEN Fail(S, "nil: rootBucket.end")
              ELSE [S EXCEPT !.adjacencyList[S.strongRoots[b].end].next = n,
                             !.strongRoots[b].end = n,
                             !.adjacencyList[n].next = nil]
         ELSE [S EXCEPT !.strongRoots[b].start = n,
                        !.strongRoots[b].end = n,
                        !.adjacencyList[n].next = nil]
    ELSE [S EXCEPT !.adjacencyList[n].next = S.strongRoots[b].start,
                   !.strongRoots[b].start = n]

\* ------------------------------------------------------ the tree operations
\* the walk of breakRelationship: the node of the list from `current` whose next
\* is child; -1 when the walk dereferences nil, -2 when it does not end
RECURSIVE FindPrev(_, _, _, _)
FindPrev(S, current, child, fuel) ==
    IF current = nil THEN -1
    ELSE IF fuel = 0 THEN -2
    ELSE IF S.adjacencyList[current].next = child THEN current
    ELSE FindPrev(S, S.adjacencyList[current].next, child, fuel - 1)

\* (n *node) breakRelationship(child)
breakRelationship(S, n, child) ==
    IF S.fault # "" THEN S
    ELSE LET S1 == [S EXCEPT !.adjacencyList[child].parent = nil] IN
         IF S1.adjacencyList[n].childList = child
         THEN [S1 EXCEPT !.adjacencyList[n].childList = S1.adjacencyList[child].next,
                         !.adjacencyList[child].next = nil]
         ELSE LET current == FindPrev(S1, S1.adjacencyList[n].childList, child, S.numNodes + 1) IN
              IF current = -1 THEN Fail(S1, "nil: breakRelationship")
              ELSE IF current = -2 THEN Fail(S1, "loop: breakRelationship")
              ELSE [S1 EXCEPT !.adjacencyList[current].next = S1.adjacencyList[child].next,
                              !.adjacencyList[child].next = nil]

\* addRelationship making child the only node of the child list
addRelationshipDropsSiblings(S, n, child) ==
    IF S.fault # "" THEN S
    ELSE [S EXCEPT !.adjacencyList[child].parent = n,
                   !.adjacencyList[child].next = nil,
                   !.adjacencyList[n].childList = child]

\* (n *node) addRelationship(child)
addRelationship(S, n, child) ==
    IF S.fault # "" THEN S
    ELSE [S EXCEPT !.adjacencyList[child].parent = n,
                   !.adjacencyList[child].next = S.adjacencyList[n].childList,
                   !.adjacencyList[n].childList = child]

\* the loop of merge with the direction of the inverted tree arcs left as it is
RECURSIVE mergeLoopUnflipped(_, _, _, _, _)
mergeLoopUnflipped(S, current, newParent, newArc, fuel) ==
    IF S.fault # "" THEN S
    ELSE IF S.adjacencyList[current].parent # nil
    THEN IF fuel = 0 THEN Fail(S, "loop: merge")
         ELSE LET oldArc == S.adjacencyList[current].arcToParent
                  oldParent == S.adjacencyList[current].parent
                  S1 == [S EXCEPT !.adjacencyList[current].arcToParent = newArc]
                  S2 == breakRelationship(S1, oldParent, current)
                  S3 == addRelationship(S2, newParent, current)
              IN  mergeLoopUnflipped(S3, oldParent, current, oldArc, fuel - 1)
    ELSE addRelationship([S EXCEPT !.adjacencyList[current].arcToParent = newArc],
                         newParent, current)

\* the loop of merge with every node of the path keeping its old arcToParent
RECURSIVE mergeLoopKeepsArc(_, _, _, _, _)
mergeLoopKeepsArc(S, current, newParent, newArc, fuel) ==
    IF S.fault # "" THEN S
    ELSE IF S.adjacencyList[current].parent # nil
    THEN IF fuel = 0 THEN Fail(S, "loop: merge")
         ELSE LET oldArc == S.adjacencyList[current].arcToParent
                  oldParent == S.adjacencyList[current].parent
                  S2 == breakRelationship(S, oldParent, current)
                  S3 == addRelationship(S2, newParent, current)
                  S4 == IF oldArc = nil THEN Fail(S3, "nil: merge newArc")
                        ELSE [S3 EXCEPT !.arcList[oldArc].direction = 1 - @]
              IN  mergeLoopKeepsArc(S4, oldParent, current, oldArc, fuel - 1)
    ELSE addRelationship([S EXCEPT !.adjacencyList[current].arcToParent = newArc],
                         newParent, current)

\* the loop of merge and the two statements after it
RECURSIVE mergeLoop(_, _, _, _, _)
mergeLoop(S, current, newParent, newArc, fuel) ==
    IF S.fault # "" THEN S
    ELSE IF S.adjacencyList[current].parent # nil
    THEN IF fuel = 0 THEN Fail(S, "loop: merge")
         ELSE LET oldArc == S.adjacencyList[current].arcToParent
                  oldParent == S.adjacencyList[current].parent
                  S1 == [S EXCEPT !.adjacencyList[current].arcToParent = newArc]
                  S2 == breakRelationship(S1, oldParent, current)
                  S3 == addRelationship(S2, newParent, current)
                  S4 == IF oldArc = nil THEN Fail(S3, "nil: merge newArc")
                        ELSE [S3 EXCEPT !.arcList[oldArc].direction = 1 - @]
              IN  mergeLoop(S4, oldParent, current, oldArc, fuel - 1)
    ELSE addRelationship([S EXCEPT !.adjacencyList[current].arcToParent = newArc],
                         newParent, current)

\* (s *Session) merge(n, child, newArc): n is the parent
merge(S, n, child, newArc) ==
    mergeLoop(Stat(S, "Mergers"), child, n, newArc, Fuel)

\* the tail of the pushes with the child left in its parent's child list
DetachLinked(S, a, child, parent) ==
    LET S1 == addOutOfTreeNode(S, parent, a)
        S3 == IF S1.ctx.LowestLabel
              THEN [S1 EXCEPT !.lowestStrongLabel = S1.adjacencyList[child].label]
              ELSE S1
    IN  addToStrongBucket(S3, child, S3.adjacencyList[child].label)

\* the tail of pushUpward and pushDownward once the arc is saturated: the arc
\* goes to the parent's pool, the tree edge is broken and the child is bucketed
Detach(S, a, child, parent) ==
    LET S1 == addOutOfTreeNode(S, parent, a)
        S2 == breakRelationship(S1, parent, child)
        S3 == IF S2.ctx.LowestLabel
              THEN [S2 EXCEPT !.lowestStrongLabel = S2.adjacencyList[child].label]
              ELSE S2
    IN  addToStrongBucket(S3, child, S3.adjacencyList[child].label)

\* pushUpward detaching the child also when the residual equals its excess
pushUpwardStrict(S, a, child, parent, resCap) ==
    IF S.fault # "" THEN S
    ELSE LET S0 == Stat(S, "Pushes")
             ex == S0.adjacencyList[child].excess
         IN  IF resCap > ex
             THEN [S0 EXCEPT !.adjacencyList[parent].excess = @ + ex,
                             !.arcList[a].flow = @ + ex,
                             !.adjacencyList[child].excess = 0]
             ELSE Detach([S0 EXCEPT !.arcList[a].direction = 0,
                                    !.adjacencyList[parent].excess = @ + resCap,
                                    !.adjacencyList[child].excess = @ - resCap,
                                    !.arcList[a].flow = S0.arcList[a].capacity],
                         a, child, parent)

\* pushUpward leaving the excess of the child as it is when the arc saturates
pushUpwardKeepsExcess(S, a, child, parent, resCap) ==
    IF S.fault # "" THEN S
    ELSE LET S0 == Stat(S, "Pushes")
             ex == S0.adjacencyList[child].excess
         IN  IF resCap >= ex
             THEN [S0 EXCEPT !.adjacencyList[parent].excess = @ + ex,
                             !.arcList[a].flow = @ + ex,
                             !.adjacencyList[child].excess = 0]
             ELSE Detach([S0 EXCEPT !.arcList[a].direction = 0,
                                    !.adjacencyList[parent].excess = @ + resCap,
                                    !.arcList[a].flow = S0.arcList[a].capacity],
                         a, child, parent)

\* (s *Session) pushUpward(a, child, parent, resCap)
pushUpward(S, a, child, parent, resCap) ==
    IF S.fault # "" THEN S
    ELSE LET S0 == Stat(S, "Pushes")
             ex == S0.adjacencyList[child].excess
         IN  IF resCap >= ex
             THEN [S0 EXCEPT !.adjacencyList[parent].excess = @ + ex,
                             !.arcList[a].flow = @ + ex,
                             !.adjacencyList[child].excess = 0]
             ELSE Detach([S0 EXCEPT !.arcList[a].direction = 0,
                                    !.adjacencyList[parent].excess = @ + resCap,
                                    !.adjacencyList[child].excess = @ - resCap,
                                    !.arcList[a].flow = S0.arcList[a].capacity],
                         a, child, parent)

\* pushDownward moving the whole excess whatever flow the arc carries
pushDownwardOverdrawn(S, a, child, parent, flow) ==
    IF S.fault # "" THEN S
    ELSE LET S0 == Stat(S, "Pushes")
             ex == S0.adjacencyList[child].excess
         IN  [S0 EXCEPT !.adjacencyList[parent].excess = @ + ex,
                        !.arcList[a].flow = @ - ex,
                        !.adjacencyList[child].excess = 0]

\* (s *Session) pushDownward(a, child, parent, flow)
pushDownward(S, a, child, parent, flow) ==
    IF S.fault # "" THEN S
    ELSE LET S0 == Stat(S, "Pushes")
             ex == S0.adjacencyList[child].excess
         IN  IF flow >= ex
             THEN [S0 EXCEPT !.adjacencyList[parent].excess = @ + ex,
                             !.arcList[a].flow = @ - ex,
                             !.adjacencyList[child].excess = 0]
             ELSE Detach([S0 EXCEPT !.arcList[a].direction = 1,
                                    !.adjacencyList[child].excess = @ - flow,
                                    !.adjacencyList[parent].excess = @ + flow,
                                    !.arcList[a].flow = 0],
                         a, child, parent)

\* pushExcess putting the last node of the path in its bucket whenever its
\* excess is positive
RECURSIVE pushExcessLoopRebuckets(_, _, _, _)
pushExcessLoopRebuckets(S, current, prevEx, fuel) ==
    IF S.fault # "" THEN S
    ELSE LET c == S.adjacencyList[current] IN
         IF c.excess # 0 /\ c.parent # nil /\ c.arcToParent # nil
         THEN IF fuel = 0 THEN Fail(S, "loop: pushExcess")
              ELSE LET parent == c.parent
                       arcToParent == c.arcToParent
                       a == S.arcList[arcToParent]
                       S1 == IF a.direction # 0
                             THEN pushUpward(S, arcToParent, current, parent, a.capacity - a.flow)
                             ELSE pushDownward(S, arcToParent, current, parent, a.flow)
                   IN  pushExcessLoopRebuckets(S1, parent, S.adjacencyList[parent].excess, fuel - 1)
         ELSE IF c.excess > 0
         THEN addToStrongBucket(
                 IF S.ctx.LowestLabel THEN [S EXCEPT !.lowestStrongLabel = c.label] ELSE S,
                 current, c.label)
         ELSE S

\* pushExcess stopping after the first arc of the path
RECURSIVE pushExcessLoopOnce(_, _, _, _)
pushExcessLoopOnce(S, current, prevEx, fuel) ==
    IF S.fault # "" THEN S
    ELSE LET c == S.adjacencyList[current] IN
         IF c.excess # 0 /\ c.parent # nil /\ c.arcToParent # nil /\ fuel = Fuel
         THEN LET parent == c.parent
                  arcToParent == c.arcToParent
                  a == S.arcList[arcToParent]
                  S1 == IF a.direction # 0
                        THEN pushUpward(S, arcToParent, current, parent, a.capacity - a.flow)
                        ELSE pushDownward(S, arcToParent, current, parent, a.flow)
              IN  pushExcessLoopOnce(S1, parent, S.adjacencyList[parent].excess, fuel - 1)
         ELSE IF c.excess > 0 /\ prevEx <= 0
         THEN addToStrongBucket(
                 IF S.ctx.LowestLabel THEN [S EXCEPT !.lowestStrongLabel = c.label] ELSE S,
                 current, c.label)
         ELSE S

\* the loop of pushExcess and the re-bucketing after it
RECURSIVE pushExcessLoop(_, _, _, _)
pushExcessLoop(S, current, prevEx, fuel) ==
    IF S.fault # "" THEN S
    ELSE LET c == S.adjacencyList[current] IN
         IF c.excess # 0 /\ c.parent # nil /\ c.arcToParent # nil
         THEN IF fuel = 0 THEN Fail(S, "loop: pushExcess")
              ELSE LET parent == c.parent
                       arcToParent == c.arcToParent
                       a == S.arcList[arcToParent]
                       S1 == IF a.direction # 0
                             THEN pushUpward(S, arcToParent, current, parent, a.capacity - a.flow)
                             ELSE pushDownward(S, arcToParent, current, parent, a.flow)
                   IN  pushExcessLoop(S1, parent, S.adjacencyList[parent].excess, fuel - 1)
         ELSE IF c.excess > 0 /\ prevEx <= 0
         THEN addToStrongBucket(
                 IF S.ctx.LowestLabel THEN [S EXCEPT !.lowestStrongLabel = c.label] ELSE S,
                 current, c.label)
         ELSE S

\* (s *Session) pushExcess(n)
pushExcess(S, n) == pushExcessLoop(S, n, 1, Fuel)

\* the label findWeakNode compares with: the cursor of the policy, minus one
TargetLabel(S) ==
    (IF S.ctx.LowestLabel THEN S.lowestStrongLabel ELSE S.highestStrongLabel) - 1

\* findWeakNode leaving the arc it returns in the pool
RECURSIVE findWeakLoopKeepsArc(_, _, _, _)
findWeakLoopKeepsArc(S, n, i, size) ==
    IF S.fault # "" THEN [S |-> S, out |-> nil, weakNode |-> nil]
    ELSE IF i < size
    THEN LET S0 == Stat(S, "ArcScans")
             pool == S0.adjacencyList[n].outOfTree
             a == IF i < Len(pool) THEN pool[i + 1] ELSE nil
             hit(w) == [S |-> [S0 EXCEPT !.adjacencyList[n].nextArc = i],
                        out |-> a, weakNode |-> w]
         IN  IF i >= Len(pool)
             THEN [S |-> Fail(S0, "index: outOfTree"), out |-> nil, weakNode |-> nil]
             ELSE IF a = nil
             THEN [S |-> Fail(S0, "nil: outOfTree entry"), out |-> nil, weakNode |-> nil]
             ELSE IF S0.adjacencyList[S0.arcList[a].to].label = TargetLabel(S0)
             THEN hit(S0.arcList[a].to)
             ELSE IF S0.adjacencyList[S0.arcList[a].from].label = TargetLabel(S0)
             THEN hit(S0.arcList[a].from)
             ELSE findWeakLoopKeepsArc(S0, n, i + 1, size)
    ELSE [S |-> [S EXCEPT !.adjacencyList[n].nextArc = S.adjacencyList[n].numberOutOfTree],
          out |-> nil, weakNode |-> nil]

\* the loop of findWeakNode from index i; the result is the Session with the
\* arc found (nil for none) and the weak node
RECURSIVE findWeakLoop(_, _, _, _)
findWeakLoop(S, n, i, size) ==
    IF S.fault # "" THEN [S |-> S, out |-> nil, weakNode |-> nil]
    ELSE IF i < size
    THEN LET S0 == Stat(S, "ArcScans")
             pool == S0.adjacencyList[n].outOfTree
             a == IF i < Len(pool) THEN pool[i + 1] ELSE nil
             hit(w) == [S |-> [S0 EXCEPT
                                 !.adjacencyList[n].nextArc = i,
                                 !.adjacencyList[n].numberOutOfTree = @ - 1,
                                 !.adjacencyList[n].outOfTree[i + 1] =
                                     pool[S0.adjacencyList[n].numberOutOfTree]],
                        out |-> a, weakNode |-> w]
         IN  IF i >= Len(pool)
             THEN [S |-> Fail(S0, "index: outOfTree"), out |-> nil, weakNode |-> nil]
             ELSE IF a = nil
             THEN [S |-> Fail(S0, "nil: outOfTree entry"), out |-> nil, weakNode |-> nil]
             ELSE IF S0.adjacencyList[S0.arcList[a].to].label = TargetLabel(S0)
             THEN hit(S0.arcList[a].to)
             ELSE IF S0.adjacencyList[S0.arcList[a].from].label = TargetLabel(S0)
             THEN hit(S0.arcList[a].from)
             ELSE findWeakLoop(S0, n, i + 1, size)
    ELSE [S |-> [S EXCEPT !.adjacencyList[n].nextArc = S.adjacencyList[n].numberOutOfTree],
          out |-> nil, weakNode |-> nil]

\* findWeakNode resuming its scan behind the entry nextArc stands at
findWeakNodeResumesBehind(S, n) ==
    findWeakLoop(S, n,
                 IF S.adjacencyList[n].nextArc > 0
                 THEN S.adjacencyList[n].nextArc + 1 ELSE 0,
                 S.adjacencyList[n].numberOutOfTree)

\* (s *Session) findWeakNode(n)
findWeakNode(S, n) ==
    findWeakLoop(S, n, S.adjacencyList[n].nextArc, S.adjacencyList[n].numberOutOfTree)

\* the scan of checkChildren: the sibling from `scan` on whose label is `label`,
\* nil when there is none, -2 when the list does not end
RECURSIVE ScanSameLabel(_, _, _, _)
ScanSameLabel(S, scan, label, fuel) ==
    IF scan = nil THEN nil
    ELSE IF fuel = 0 THEN -2
    ELSE IF S.adjacencyList[scan].label = label THEN scan
    ELSE ScanSameLabel(S, S.adjacencyList[scan].next, label, fuel - 1)

\* checkChildren relabeling n without looking for a child of the same label
checkChildrenUnscanned(S, n) ==
    IF S.fault # "" THEN S
    ELSE LET nd == S.adjacencyList[n] IN
         IF nd.label \notin DOMAIN S.labelCount \/ (nd.label + 1) \notin DOMAIN S.labelCount
         THEN Fail(S, "index: labelCount")
         ELSE Stat([S EXCEPT !.adjacencyList[n].nextScan = nil,
                             !.labelCount[nd.label] = UDec(@),
                             !.adjacencyList[n].label = nd.label + 1,
                             !.labelCount[nd.label + 1] = UInc(@),
                             !.adjacencyList[n].nextArc = 0],
                   "Relabels")

\* (s *Session) checkChildren(n)
checkChildren(S, n) ==
    IF S.fault # "" THEN S
    ELSE LET nd == S.adjacencyList[n]
             found == ScanSameLabel(S, nd.nextScan, nd.label, S.numNodes + 1)
         IN  IF found = -2 THEN Fail(S, "loop: checkChildren")
             ELSE IF found # nil
             THEN [S EXCEPT !.adjacencyList[n].nextScan = found]
             ELSE IF nd.label \notin DOMAIN S.labelCount \/ (nd.label + 1) \notin DOMAIN S.labelCount
             THEN Fail(S, "index: labelCount")
             ELSE Stat([S EXCEPT !.adjacencyList[n].nextScan = nil,
                                 !.labelCount[nd.label] = UDec(@),
                                 !.adjacencyList[n].label = nd.label + 1,
                                 !.labelCount[nd.label + 1] = UInc(@),
                                 !.adjacencyList[n].nextArc = 0],
                       "Relabels")

\* the two nested loops of processRoot, from the state where strongNode is the
\* node being scanned, and the re-bucketing of n when no weak node is found
RECURSIVE processRootLoop(_, _, _, _)
processRootLoop(S, n, strongNode, fuel) ==
    IF S.fault # "" THEN S
    ELSE IF fuel = 0 THEN Fail(S, "loop: processRoot")
    ELSE IF strongNode = nil
    THEN LET S1 == addToStrongBucket(S, n, S.adjacencyList[n].label) IN
         IF ~S1.ctx.LowestLabel
         THEN [S1 EXCEPT !.highestStrongLabel = @ + 1]
         ELSE S1
    ELSE IF S.adjacencyList[strongNode].nextScan # nil
    THEN LET temp == S.adjacencyList[strongNode].nextScan
             S1 == [S EXCEPT !.adjacencyList[strongNode].nextScan = S.adjacencyList[temp].next]
             S2 == [S1 EXCEPT !.adjacencyList[temp].nextScan = S1.adjacencyList[temp].childList]
             r == findWeakNode(S2, temp)
         IN  IF r.out # nil
             THEN pushExcess(merge(r.S, r.weakNode, temp, r.out), n)
             ELSE processRootLoop(checkChildren(r.S, temp), n, temp, fuel - 1)
    ELSE LET p == S.adjacencyList[strongNode].parent IN
         IF p # nil
         THEN processRootLoop(checkChildren(S, p), n, p, fuel - 1)
         ELSE processRootLoop(S, n, nil, fuel - 1)

\* (s *Session) processRoot(n): n is the strong root
processRoot(S, n) ==
    IF S.fault # "" THEN S
    ELSE LET S1 == [S EXCEPT !.adjacencyList[n].nextScan = S.adjacencyList[n].childList]
             r == findWeakNode(S1, n)
         IN  IF r.out # nil
             THEN pushExcess(merge(r.S, r.weakNode, n, r.out), n)
             ELSE processRootLoop(checkChildren(r.S, n), n, n, Fuel)

\* the merge call processRootLoop makes from the state where strongNode is
\* being scanned: the Session at the call and the arguments, out = nil for none
RECURSIVE mergeOfLoop(_, _, _, _)
mergeOfLoop(S, n, strongNode, fuel) ==
    IF S.fault # "" \/ fuel = 0 \/ strongNode = nil
    THEN [S |-> S, weakNode |-> nil, child |-> nil, out |-> nil]
    ELSE IF S.adjacencyList[strongNode].nextScan # nil
    THEN LET temp == S.adjacencyList[strongNode].nextScan
             S1 == [S EXCEPT !.adjacencyList[strongNode].nextScan = S.adjacencyList[temp].next]
             S2 == [S1 EXCEPT !.adjacencyList[temp].nextScan = S1.adjacencyList[temp].childList]
             r == findWeakNode(S2, temp)
         IN  IF r.out # nil
             THEN [S |-> r.S, weakNode |-> r.weakNode, child |-> temp, out |-> r.out]
             ELSE mergeOfLoop(checkChildren(r.S, temp), n, temp, fuel - 1)
    ELSE LET p == S.adjacencyList[strongNode].parent IN
         IF p # nil
         THEN mergeOfLoop(checkChildren(S, p), n, p, fuel - 1)
         ELSE mergeOfLoop(S, n, nil, fuel - 1)

\* the merge call processRoot(n) makes
mergeOf(S, n) ==
    IF S.fault # "" THEN [S |-> S, weakNode |-> nil, child |-> nil, out |-> nil]
    ELSE LET S1 == [S EXCEPT !.adjacencyList[n].nextScan = S.adjacencyList[n].childList]
             r == findWeakNode(S1, n)
         IN  IF r.out # nil
             THEN [S |-> r.S, weakNode |-> r.weakNode, child |-> n, out |-> r.out]
             ELSE mergeOfLoop(checkChildren(r.S, n), n, n, Fuel)

\* labelCount[current.label]--; current.label = 0
LiftToZero(S, current) ==
    IF S.fault # "" THEN S
    ELSE IF S.adjacencyList[current].label \notin DOMAIN S.labelCount
    THEN Fail(S, "index: labelCount")
    ELSE [S EXCEPT !.labelCount[S.adjacencyList[current].label] = UDec(@),
                   !.adjacencyList[current].label = 0]

\* current.label = numNodes with labelCount left as it is
LiftUncounted(S, current) ==
    IF S.fault # "" THEN S
    ELSE [S EXCEPT !.adjacencyList[current].label = S.numNodes]

\* labelCount[current.label]--; current.label = numNodes
Lift(S, current) ==
    IF S.fault # "" THEN S
    ELSE IF S.adjacencyList[current].label \notin DOMAIN S.labelCount
    THEN Fail(S, "index: labelCount")
    ELSE [S EXCEPT !.labelCount[S.adjacencyList[current].label] = UDec(@),
                   !.adjacencyList[current].label = S.numNodes]

\* the traversal of liftAll
RECURSIVE liftAllLoop(_, _, _)
liftAllLoop(S, current, fuel) ==
    IF S.fault # "" \/ current = nil THEN S
    ELSE IF fuel = 0 THEN Fail(S, "loop: liftAll")
    ELSE IF S.adjacencyList[current].nextScan # nil
    THEN LET temp == S.adjacencyList[current].nextScan
             S1 == [S EXCEPT !.adjacencyList[current].nextScan = S.adjacencyList[temp].next]
             S2 == [S1 EXCEPT !.adjacencyList[temp].nextScan = S1.adjacencyList[temp].childList]
         IN  liftAllLoop(Lift(S2, temp), temp, fuel - 1)
    ELSE liftAllLoop(S, S.adjacencyList[current].parent, fuel - 1)

\* (s *Session) liftAll(n)
liftAll(S, n) ==
    IF S.fault # "" THEN S
    ELSE liftAllLoop(
            Lift([S EXCEPT !.adjacencyList[n].nextScan = S.adjacencyList[n].childList], n),
            n, Fuel)

\* the promotion of bucket 0: every node of bucket 0 gets label 1 and moves to
\* bucket 1; clearNext is getLowestStrongRoot's strongRoot.next = nil
RECURSIVE PromoteBucket0(_, _, _)
PromoteBucket0(S, clearNext, fuel) ==
    IF S.fault # "" THEN S
    ELSE IF 0 \notin DOMAIN S.strongRoots THEN Fail(S, "index: strongRoots")
    ELSE IF S.strongRoots[0].start = nil THEN S
    ELSE IF fuel = 0 THEN Fail(S, "loop: bucket 0")
    ELSE IF 1 \notin DOMAIN S.labelCount THEN Fail(S, "index: labelCount")
    ELSE LET strongRoot == S.strongRoots[0].start
             S1 == [S EXCEPT !.strongRoots[0].start = S.adjacencyList[strongRoot].next,
                             !.adjacencyList[strongRoot].next =
                                 IF clearNext THEN nil ELSE @,
                             !.adjacencyList[strongRoot].label = 1,
                             !.labelCount[0] = UDec(@),
                             !.labelCount[1] = UInc(@)]
         IN  PromoteBucket0(addToStrongBucket(Stat(S1, "Relabels"), strongRoot, 1),
                            clearNext, fuel - 1)

\* strongRoot = strongRoots[i].start; strongRoots[i].start = strongRoot.next;
\* strongRoot.next = nil
PopStart(S, i) ==
    LET strongRoot == S.strongRoots[i].start IN
    [S |-> [S EXCEPT !.strongRoots[i].start = S.adjacencyList[strongRoot].next,
                     !.adjacencyList[strongRoot].next = nil],
     strongRoot |-> strongRoot]

None(S) == [S |-> S, strongRoot |-> nil]

\* the scan of getLowestStrongRoot from label i upward
RECURSIVE lowestScan(_, _)
lowestScan(S, i) ==
    IF i < S.numNodes
    THEN IF i \notin DOMAIN S.strongRoots THEN None(Fail(S, "index: strongRoots"))
         ELSE IF S.strongRoots[i].start # nil
         THEN LET S1 == [S EXCEPT !.lowestStrongLabel = i] IN
              IF (i - 1) \notin DOMAIN S.labelCount THEN None(Fail(S1, "index: labelCount"))
              ELSE IF S1.labelCount[i - 1] = 0 THEN None(Stat(S1, "Gaps"))
              ELSE PopStart(S1, i)
         ELSE lowestScan(S, i + 1)
    ELSE None([S EXCEPT !.lowestStrongLabel = S.numNodes])

\* (s *Session) getLowestStrongRoot()
getLowestStrongRoot(S) ==
    IF S.fault # "" THEN None(S)
    ELSE LET S1 == IF S.lowestStrongLabel = 0
                   THEN [PromoteBucket0(S, TRUE, Fuel) EXCEPT !.lowestStrongLabel = 1]
                   ELSE S
         IN  IF S1.fault # "" THEN None(S1) ELSE lowestScan(S1, S1.lowestStrongLabel)

\* the gap loop counting the gap once, at the last node it removes
RECURSIVE gapLoopCountsOnce(_, _, _)
gapLoopCountsOnce(S, i, fuel) ==
    IF S.fault # "" \/ S.strongRoots[i].start = nil THEN S
    ELSE IF fuel = 0 THEN Fail(S, "loop: gap")
    ELSE LET strongRoot == S.strongRoots[i].start
             S0 == [S EXCEPT !.strongRoots[i].start = S.adjacencyList[strongRoot].next]
             S1 == IF S0.strongRoots[i].start = nil THEN Stat(S0, "Gaps") ELSE S0
         IN  gapLoopCountsOnce(liftAll(S1, strongRoot), i, fuel - 1)

\* the gap loop of getHighestStrongRoot: every node of bucket i is removed and
\* lifted, and the gap counter is incremented for each
RECURSIVE gapLoop(_, _, _)
gapLoop(S, i, fuel) ==
    IF S.fault # "" \/ S.strongRoots[i].start = nil THEN S
    ELSE IF fuel = 0 THEN Fail(S, "loop: gap")
    ELSE LET strongRoot == S.strongRoots[i].start
             S1 == Stat([S EXCEPT !.strongRoots[i].start = S.adjacencyList[strongRoot].next],
                        "Gaps")
         IN  gapLoop(liftAll(S1, strongRoot), i, fuel - 1)

\* the statements of getHighestStrongRoot after its scan
highestBucket0(S) ==
    IF S.fault # "" THEN None(S)
    ELSE IF 0 \notin DOMAIN S.strongRoots THEN None(Fail(S, "index: strongRoots"))
    ELSE IF S.strongRoots[0].start = nil THEN None(S)
    ELSE LET S1 == PromoteBucket0(S, FALSE, Fuel) IN
         IF S1.fault # "" THEN None(S1)
         ELSE IF S1.strongRoots[1].start = nil THEN None(Fail(S1, "nil: strongRoot"))
         ELSE PopStart([S1 EXCEPT !.highestStrongLabel = 1], 1)

\* the scan of getHighestStrongRoot from label i downward
RECURSIVE highestScan(_, _)
highestScan(S, i) ==
    IF S.fault # "" THEN None(S)
    ELSE IF i > 0
    THEN IF i \notin DOMAIN S.strongRoots THEN None(Fail(S, "index: strongRoots"))
         ELSE IF S.strongRoots[i].start # nil
         THEN LET S1 == [S EXCEPT !.highestStrongLabel = i] IN
              IF UPos(S1.labelCount[i - 1])
              THEN PopStart(S1, i)
              ELSE highestScan(gapLoop(S1, i, Fuel), i - 1)
         ELSE highestScan(S, i - 1)
    ELSE highestBucket0(S)

\* (s *Session) getHighestStrongRoot()
getHighestStrongRoot(S) == highestScan(S, S.highestStrongLabel)

\* ---------------------------------------------------------------- the solver
\* the first two loops of simpleInitialization: the arcs of the pool of the
\* source (atSource) or of the sink are saturated
RECURSIVE saturate(_, _, _, _)
saturate(S, atSource, i, size) ==
    IF S.fault # "" \/ i >= size THEN S
    ELSE LET t == IF atSource THEN S.source ELSE S.sink
             tempArc == S.adjacencyList[t].outOfTree[i + 1]
             a == S.arcList[tempArc]
         IN  saturate(
                IF atSource
                THEN [S EXCEPT !.arcList[tempArc].flow = a.capacity,
                               !.adjacencyList[a.to].excess = @ + a.capacity]
                ELSE [S EXCEPT !.arcList[tempArc].flow = a.capacity,
                               !.adjacencyList[a.from].excess = @ - a.capacity],
                atSource, i + 1, size)

\* the third loop of simpleInitialization: nodes with positive excess get
\* label 1 and go to bucket 1
RECURSIVE initBuckets(_, _)
initBuckets(S, i) ==
    IF S.fault # "" \/ i > S.numNodes THEN S
    ELSE IF S.adjacencyList[i].excess > 0
    THEN IF 1 \notin DOMAIN S.labelCount THEN Fail(S, "index: labelCount")
         ELSE initBuckets(
                 addToStrongBucket([S EXCEPT !.adjacencyList[i].label = 1,
                                             !.labelCount[1] = UInc(@)], i, 1),
                 i + 1)
    ELSE initBuckets(S, i + 1)

\* (s *Session) simpleInitialization(): the cursors are not assigned
simpleInitialization(S) ==
    IF S.fault # "" THEN S
    ELSE IF S.source \notin DOMAIN S.adjacencyList \/ S.sink \notin DOMAIN S.adjacencyList
    THEN Fail(S, "index: adjacencyList")
    ELSE LET S1 == saturate(S, TRUE, 0, S.adjacencyList[S.source].numberOutOfTree)
             S2 == saturate(S1, FALSE, 0, S1.adjacencyList[S1.sink].numberOutOfTree)
             S3 == [S2 EXCEPT !.adjacencyList[S.source].excess = 0,
                              !.adjacencyList[S.sink].excess = 0]
             S4 == initBuckets(S3, 1)
         IN  IF S4.fault # "" THEN S4
             ELSE [S4 EXCEPT !.adjacencyList[S.source].label = S.numNodes,
                             !.adjacencyList[S.sink].label = 0,
                             !.labelCount[0] = (S.numNodes - 2) - S4.labelCount[1]]

\* ------------------------------------------------------------- the sorting
Swap(arr, i, j) == [arr EXCEPT ![i] = arr[j], ![j] = arr[i]]

\* one pass of the bubble sort over Go indices j..i-1; flow maps an arc to its
\* flow; swap tells whether the pass swapped
RECURSIVE bubblePass(_, _, _, _, _)
bubblePass(arr, flow, j, i, swap) ==
    IF j < i
    THEN IF flow[arr[j + 1]] < flow[arr[j + 2]]
         THEN bubblePass(Swap(arr, j + 1, j + 2), flow, j + 1, i, TRUE)
         ELSE bubblePass(arr, flow, j + 1, i, swap)
    ELSE [arr |-> arr, swap |-> swap]

\* the bubble sort branch of quickSort: it returns after the first pass that
\* swapped (if swap != nil { return })
RECURSIVE bubbleSort(_, _, _, _)
bubbleSort(arr, flow, left, i) ==
    IF i > left
    THEN LET r == bubblePass(arr, flow, left, i, FALSE) IN
         IF r.swap THEN r.arr ELSE bubbleSort(r.arr, flow, left, i - 1)
    ELSE arr

\* the partition loop of quickSort
RECURSIVE partition(_, _, _, _, _)
partition(arr, flow, left, right, pivotval) ==
    IF left < right
    THEN IF flow[arr[left + 1]] < pivotval
         THEN partition(Swap(arr, left + 1, right + 1), flow, left, right - 1, pivotval)
         ELSE partition(arr, flow, left + 1, right, pivotval)
    ELSE [arr |-> arr, left |-> left]

\* the pivot index quickSort selects
Pivot(arr, flow, first, last) ==
    LET x1 == flow[arr[first + 1]]
        x2 == flow[arr[((first + last) \div 2) + 1]]
        x3 == flow[arr[last + 1]]
    IN  IF x1 <= x2
        THEN IF x2 > x3
             THEN IF x1 <= x3 THEN last ELSE first
             ELSE (first + last) \div 2
        ELSE IF x2 <= x3
             THEN IF x1 <= x3 THEN first ELSE last
             ELSE (first + last) \div 2

\* quickSort(arr, first, last), first and last Go indices
RECURSIVE quickSort(_, _, _, _)
quickSort(arr, flow, first, last) ==
    IF (last - first) <= 5
    THEN bubbleSort(arr, flow, first, last)
    ELSE LET pivot == Pivot(arr, flow, first, last)
             pivotval == flow[arr[pivot + 1]]
             a1 == Swap(arr, first + 1, pivot + 1)
             r == partition(a1, flow, first + 1, last, pivotval)
             a2 == Swap(r.arr, first + 1, r.left + 1)
             a3 == IF first < r.left - 1 THEN quickSort(a2, flow, first, r.left - 1) ELSE a2
         IN  IF r.left + 1 < last THEN quickSort(a3, flow, r.left + 1, last) ELSE a3

FlowOf(S) == [a \in DOMAIN S.arcList |-> S.arcList[a].flow]

\* (n *node) sort()
sort(S, n) ==
    IF S.fault # "" THEN S
    ELSE LET nd == S.adjacencyList[n] IN
         IF nd.numberOutOfTree > 1
         THEN [S EXCEPT !.adjacencyList[n].outOfTree =
                           quickSort(nd.outOfTree, FlowOf(S), 0, nd.numberOutOfTree - 1)]
         ELSE S

\* the loop of minisort: the index at which temp is put back
RECURSIVE minisortLoop(_, _, _, _, _)
minisortLoop(arr, flow, i, size, tempflow) ==
    IF i < size /\ tempflow < flow[arr[i + 1]]
    THEN minisortLoop([arr EXCEPT ![i] = arr[i + 1]], flow, i + 1, size, tempflow)
    ELSE [arr |-> arr, i |-> i]

\* (n *node) minisort()
minisort(S, n) ==
    IF S.fault # "" THEN S
    ELSE LET nd == S.adjacencyList[n] IN
         IF nd.nextArc >= Len(nd.outOfTree) THEN Fail(S, "index: outOfTree")
         ELSE LET temp == nd.outOfTree[nd.nextArc + 1] IN
              IF temp = nil THEN Fail(S, "nil: outOfTree entry")
              ELSE LET r == minisortLoop(nd.outOfTree, FlowOf(S), nd.nextArc + 1,
                                         nd.numberOutOfTree, S.arcList[temp].flow)
                   IN  [S EXCEPT !.adjacencyList[n].outOfTree = [r.arr EXCEPT ![r.i] = temp]]

\* ----------------------------------------------------------- flow recovery
\* tempArc = current.outOfTree[current.nextArc] followed by a use of tempArc:
\* the arc, -1 for an index out of range, nil for a nil entry
HeadArc(S, current) ==
    LET nd == S.adjacencyList[current] IN
    IF nd.nextArc >= Len(nd.outOfTree) THEN -1 ELSE nd.outOfTree[nd.nextArc + 1]

HeadFault(S, current) ==
    IF HeadArc(S, current) = -1 THEN Fail(S, "index: outOfTree[nextArc]")
    ELSE Fail(S, "nil: outOfTree[nextArc]")

\* the record that outOfTree[nextArc] is read outside the live part of the pool
NoteRead(S, current) ==
    IF S.adjacencyList[current].nextArc >= S.adjacencyList[current].numberOutOfTree
    THEN [S EXCEPT !.stale = TRUE] ELSE S

\* tempArc.flow -= bottleneck, then minisort or nextArc++ at current
Cancel(S, current, tempArc, bottleneck) ==
    LET S1 == [S EXCEPT !.arcList[tempArc].flow = @ - bottleneck] IN
    IF S1.arcList[tempArc].flow # 0
    THEN minisort(S1, current)
    ELSE [S1 EXCEPT !.adjacencyList[current].nextArc = @ + 1]

\* a walk of decompose along the heads of the pools, marking nodes visited with
\* `iteration`; toSource: the walk also ends at the source; cancel: the walk
\* cancels `bottleneck` on each arc, otherwise it lowers bottleneck to the
\* least flow met
RECURSIVE walk(_, _, _, _, _, _, _)
walk(S, current, bottleneck, iteration, toSource, cancel, fuel) ==
    IF S.fault # "" THEN [S |-> S, current |-> current, bottleneck |-> bottleneck]
    ELSE IF (toSource => current # S.source) /\ S.adjacencyList[current].visited < iteration
    THEN IF fuel = 0
         THEN [S |-> Fail(S, "loop: decompose"), current |-> current, bottleneck |-> bottleneck]
         ELSE LET S1 == NoteRead([S EXCEPT !.adjacencyList[current].visited = iteration], current)
                  tempArc == HeadArc(S1, current)
              IN  IF tempArc <= 0
                  THEN [S |-> HeadFault(S1, current), current |-> current, bottleneck |-> bottleneck]
                  ELSE walk(IF cancel THEN Cancel(S1, current, tempArc, bottleneck) ELSE S1,
                            S1.arcList[tempArc].from,
                            IF ~cancel /\ S1.arcList[tempArc].flow < bottleneck
                            THEN S1.arcList[tempArc].flow ELSE bottleneck,
                            iteration, toSource, cancel, fuel - 1)
    ELSE [S |-> S, current |-> current, bottleneck |-> bottleneck]

\* decompose without the loop that cancels bottleneck along the path
cancelPathSkipped(S, current, bottleneck, fuel) == S

\* the loop of decompose that cancels bottleneck along the path to the source
RECURSIVE cancelPath(_, _, _, _)
cancelPath(S, current, bottleneck, fuel) ==
    IF S.fault # "" \/ current = S.source THEN S
    ELSE IF fuel = 0 THEN Fail(S, "loop: decompose")
    ELSE LET S1 == NoteRead(S, current)
             tempArc == HeadArc(S1, current)
         IN  IF tempArc <= 0 THEN HeadFault(S1, current)
             ELSE cancelPath(Cancel(S1, current, tempArc, bottleneck),
                             S1.arcList[tempArc].from, bottleneck, fuel - 1)

\* (n *node) decompose(source, iteration): the Session and *iteration afterwards
decompose(S, n, iteration) ==
    LET w1 == walk(S, n, S.adjacencyList[n].excess, iteration, TRUE, FALSE, Fuel) IN
    IF w1.S.fault # "" THEN [S |-> w1.S, iteration |-> iteration]
    ELSE IF w1.current = S.source
    THEN [S |-> cancelPath([w1.S EXCEPT !.adjacencyList[n].excess = @ - w1.bottleneck],
                           n, w1.bottleneck, Fuel),
          iteration |-> iteration]
    ELSE LET S2 == NoteRead(w1.S, w1.current)
             h == HeadArc(S2, w1.current)
         IN  IF h <= 0 THEN [S |-> HeadFault(S2, w1.current), iteration |-> iteration + 1]
             ELSE LET w2 == walk(S2, w1.current, S2.arcList[h].flow, iteration + 1,
                                 FALSE, FALSE, Fuel)
                      w3 == walk(w2.S, w2.current, w2.bottleneck, iteration + 2,
                                 FALSE, TRUE, Fuel)
                  IN  [S |-> w3.S, iteration |-> iteration + 2]

\* cancelAtSink without the test of excess + flow < 0
RECURSIVE cancelAtSinkUnchecked(_, _)
cancelAtSinkUnchecked(S, i) ==
    IF S.fault # "" \/ i >= S.adjacencyList[S.sink].numberOutOfTree THEN S
    ELSE LET tempArc == S.adjacencyList[S.sink].outOfTree[i + 1]
             a == S.arcList[tempArc]
             ex == S.adjacencyList[a.from].excess
         IN  cancelAtSinkUnchecked(
                IF ex < 0
                THEN [S EXCEPT !.arcList[tempArc].flow = ex + a.flow,
                               !.adjacencyList[a.from].excess = 0]
                ELSE S,
                i + 1)

\* the first loop of recoverFlow: negative excess is cancelled against the
\* flow of the arcs into the sink
RECURSIVE cancelAtSink(_, _)
cancelAtSink(S, i) ==
    IF S.fault # "" \/ i >= S.adjacencyList[S.sink].numberOutOfTree THEN S
    ELSE LET tempArc == S.adjacencyList[S.sink].outOfTree[i + 1]
             a == S.arcList[tempArc]
             ex == S.adjacencyList[a.from].excess
         IN  cancelAtSink(
                IF ex < 0
                THEN IF ex + a.flow < 0
                     THEN [S EXCEPT !.adjacencyList[a.from].excess = ex + a.flow,
                                    !.arcList[tempArc].flow = 0]
                     ELSE [S EXCEPT !.arcList[tempArc].flow = ex + a.flow,
                                    !.adjacencyList[a.from].excess = 0]
                ELSE S,
                i + 1)

\* the second loop of recoverFlow: the arcs out of the source join the pools of
\* their to-nodes
RECURSIVE attachSourceArcs(_, _)
attachSourceArcs(S, i) ==
    IF S.fault # "" \/ i >= S.adjacencyList[S.source].numberOutOfTree THEN S
    ELSE LET tempArc == S.adjacencyList[S.source].outOfTree[i + 1] IN
         attachSourceArcs(addOutOfTreeNode(S, S.arcList[tempArc].to, tempArc), i + 1)

\* the compaction loop of recoverFlow: arcs without flow leave the pool
RECURSIVE compact(_, _, _)
compact(S, n, j) ==
    IF S.fault # "" \/ j >= S.adjacencyList[n].numberOutOfTree THEN S
    ELSE LET nd == S.adjacencyList[n] IN
         IF nd.outOfTree[j + 1] = nil THEN Fail(S, "nil: outOfTree entry")
         ELSE IF S.arcList[nd.outOfTree[j + 1]].flow = 0
         THEN compact([S EXCEPT !.adjacencyList[n].numberOutOfTree = nd.numberOutOfTree - 1,
                                !.adjacencyList[n].outOfTree[j + 1] =
                                    nd.outOfTree[nd.numberOutOfTree]],
                      n, j)
         ELSE compact(S, n, j + 1)

\* the prepare loop adding arcToParent also for a node that has no parent
RECURSIVE prepareNodesStaleArc(_, _, _)
prepareNodesStaleArc(S, i, gap) ==
    IF S.fault # "" \/ i > S.numNodes THEN S
    ELSE IF i = S.source \/ i = S.sink THEN prepareNodesStaleArc(S, i + 1, gap)
    ELSE IF S.adjacencyList[i].label >= gap
    THEN LET S1 == [S EXCEPT !.adjacencyList[i].nextArc = 0]
             tempNode == S1.adjacencyList[i]
             S2 == IF tempNode.arcToParent # nil /\ S1.arcList[tempNode.arcToParent].flow # 0
                   THEN addOutOfTreeNode(S1, S1.arcList[tempNode.arcToParent].to,
                                         tempNode.arcToParent)
                   ELSE S1
         IN  prepareNodesStaleArc(sort(compact(S2, i, 0), i), i + 1, gap)
    ELSE prepareNodesStaleArc(S, i + 1, gap)

\* the third loop of recoverFlow, over the nodes from i on
RECURSIVE prepareNodes(_, _, _)
prepareNodes(S, i, gap) ==
    IF S.fault # "" \/ i > S.numNodes THEN S
    ELSE IF i = S.source \/ i = S.sink THEN prepareNodes(S, i + 1, gap)
    ELSE IF S.adjacencyList[i].label >= gap
    THEN LET S1 == [S EXCEPT !.adjacencyList[i].nextArc = 0]
             tempNode == S1.adjacencyList[i]
             S2 == IF tempNode.parent # nil
                   THEN IF tempNode.arcToParent = nil THEN Fail(S1, "nil: arcToParent")
                        ELSE IF S1.arcList[tempNode.arcToParent].flow # 0
                        THEN addOutOfTreeNode(S1, S1.arcList[tempNode.arcToParent].to,
                                              tempNode.arcToParent)
                        ELSE S1
                   ELSE S1
         IN  prepareNodes(sort(compact(S2, i, 0), i), i + 1, gap)
    ELSE prepareNodes(S, i + 1, gap)

\* the last loop of recoverFlow, from node i on
RECURSIVE decomposeAll(_, _, _, _)
decomposeAll(S, i, iteration, fuel) ==
    IF S.fault # "" \/ i > S.numNodes THEN S
    ELSE IF S.adjacencyList[i].excess > 0
    THEN IF fuel = 0 THEN Fail(S, "loop: recoverFlow")
         ELSE LET r == decompose(S, i, iteration + 1) IN
              decomposeAll(r.S, i, r.iteration, fuel - 1)
    ELSE decomposeAll(S, i + 1, iteration, fuel)

\* gap without the test of ctx.LowestLabel
GapNumNodes(S) == S.numNodes

\* gap, as recoverFlow, checkOptimality and displayCut compute it
Gap(S) == IF S.ctx.LowestLabel THEN S.lowestStrongLabel ELSE S.numNodes

\* (s *Session) recoverFlow() up to its last loop
recoverFlowPools(S) ==
    IF S.fault # "" THEN S
    ELSE LET S1 == attachSourceArcs(cancelAtSink(S, 0), 0)
             S2 == [S1 EXCEPT !.adjacencyList[S.source].excess = 0,
                              !.adjacencyList[S.sink].excess = 0]
         IN  prepareNodes(S2, 1, Gap(S))

\* (s *Session) recoverFlow()
recoverFlow(S) == decomposeAll(recoverFlowPools(S), 1, 1, Fuel)

\* the node the last loop of recoverFlow calls decompose on next, when it stands
\* at node i: the first one from i on with positive excess, nil when there is none
RECURSIVE nextExcess(_, _)
nextExcess(S, i) ==
    IF i > S.numNodes THEN nil
    ELSE IF S.adjacencyList[i].excess > 0 THEN i
    ELSE nextExcess(S, i + 1)

\* ------------------------------------------------------------- the output
\* one w.Write call: k is the record type ("c", "s", "f", "n"), t the text of
\* a comment, a, b, c the numbers of the record
Line(k, t, a, b, c) == [k |-> k, t |-> t, a |-> a, b |-> b, c |-> c]
Comment(t) == Line("c", t, 0, 0, 0)

\* an io.Writer: its first `left` writes succeed (-1: all of them, as with a
\* bytes.Buffer), the next one returns an error
Write(w, line) ==
    IF w.err THEN w
    ELSE IF w.left = 0 THEN [w EXCEPT !.err = TRUE]
    ELSE [w EXCEPT !.lines = Append(@, line), !.left = IF @ > 0 THEN @ - 1 ELSE @]

\* writes in sequence, each one returning at the first error
RECURSIVE WriteAll(_, _)
WriteAll(w, lines) ==
    IF lines = << >> \/ w.err THEN w
    ELSE WriteAll(Write(w, Head(lines)), Tail(lines))

RECURSIVE SumSeq(_)
SumSeq(q) == IF q = << >> THEN 0 ELSE Head(q) + SumSeq(Tail(q))

\* mincut, as checkOptimality accumulates it over arcList
Mincut(S) ==
    SumSeq([i \in 1..S.numArcs |->
              IF S.adjacencyList[S.arcList[i].from].label >= Gap(S)
                 /\ S.adjacencyList[S.arcList[i].to].label < Gap(S)
              THEN S.arcList[i].capacity ELSE 0])

\* excess[n-1], as checkOptimality accumulates it over arcList
ArcExcess(S, n) ==
    SumSeq([i \in 1..S.numArcs |->
              (IF S.arcList[i].to = n THEN S.arcList[i].flow ELSE 0)
              - (IF S.arcList[i].from = n THEN S.arcList[i].flow ELSE 0)])

RECURSIVE Concat(_)
Concat(qq) == IF qq = << >> THEN << >> ELSE Head(qq) \o Concat(Tail(qq))

\* checkOptimality with the `s` line written outside the test of optimality
checkOptimalityLinesAlways(S) ==
    (IF ArcExcess(S, S.sink) # Mincut(S)
     THEN << Comment("Flow is not optimal - max flow does not equal min cut") >>
     ELSE << Comment("Solution checks as optimal") >>)
    \o << Line("s", "", Mincut(S), 0, 0) >>

\* the writes of checkOptimality when none fails
checkOptimalityLines(S) ==
    LET capacityLines ==
            Concat([i \in 1..S.numArcs |->
                      IF S.arcList[i].flow > S.arcList[i].capacity \/ S.arcList[i].flow < 0
                      THEN << Line("c", "Capacity constraint violated on arc",
                                   S.arcList[i].from, S.arcList[i].to, S.arcList[i].flow) >>
                      ELSE << >>])
        balanceLines ==
            Concat([i \in 1..S.numNodes |->
                      IF i # S.source /\ i # S.sink /\ ArcExcess(S, i) # 0
                      THEN << Line("c", "Flow balance constraint violated in node",
                                   i, ArcExcess(S, i), 0) >>
                      ELSE << >>])
        feasible == IF capacityLines = << >> /\ balanceLines = << >>
                    THEN << Comment("Solution checks as feasible") >> ELSE << >>
        optimal == IF ArcExcess(S, S.sink) # Mincut(S)
                   THEN << Comment("Flow is not optimal - max flow does not equal min cut") >>
                   ELSE << Comment("Solution checks as optimal"),
                           Line("s", "", Mincut(S), 0, 0) >>
    IN  capacityLines \o balanceLines \o feasible \o optimal

\* (s *Session) checkOptimality(w)
checkOptimality(S, w) == WriteAll(w, checkOptimalityLines(S))

\* displayCut listing the nodes whose label is above gap
displayCutAboveGap(S, w) ==
    WriteAll(w, << Comment("Nodes in source set of min s-t cut:") >>
                \o Concat([i \in 1..S.numNodes |->
                             IF S.adjacencyList[i].label > Gap(S)
                             THEN << Line("n", "", S.adjacencyList[i].number, 0, 0) >>
                             ELSE << >>]))

\* (s *Session) displayCut(w)
displayCut(S, w) ==
    WriteAll(w, << Comment("Nodes in source set of min s-t cut:") >>
                \o Concat([i \in 1..S.numNodes |->
                             IF S.adjacencyList[i].label >= Gap(S)
                             THEN << Line("n", "", S.adjacencyList[i].number, 0, 0) >>
                             ELSE << >>]))

\* (s *Session) displayFlow(w)
displayFlow(S, w) ==
    WriteAll(w, [i \in 1..S.numArcs |->
                   Line("f", "", S.arcList[i].from, S.arcList[i].to, S.arcList[i].flow)])

\* the writes of result before it calls checkOptimality: the header, the
\* banner and the runtime configuration
resultHeader(S, header) ==
    (IF header = "" THEN << >> ELSE << Comment(header), Comment("") >>)
    \o << Comment("Dimacs-format maximum flow result generated by pseudo.go"),
          Comment(""),
          Comment("Optimal flow using  Hochbaum's PseudoFlow algorithm"),
          Comment(""),
          Comment("Runtime Configuration -"),
          Comment(IF S.ctx.LowestLabel
                  THEN "Lowest label pseudoflow algorithm"
                  ELSE "Highest label pseudoflow algorithm"),
          Comment(IF S.ctx.FifoBuckets
                  THEN "Using FIFO buckets" ELSE "Using LIFO buckets") >>

\* (s *Session) result(w, header): the writer afterwards and the error returned
result(S, w, header) ==
    LET w1 == WriteAll(w, resultHeader(S, header))
        w2 == checkOptimality(S, w1)
        w3 == Write(w2, Comment(""))
        w4 == IF S.ctx.DisplayCut
              THEN displayCut(S, w3)
              ELSE displayFlow(S, Write(w3, Comment("SRC DST FLOW")))
    IN  IF w1.err THEN [w |-> w1, err |-> TRUE]
        ELSE IF w2.err THEN [w |-> w2, err |-> FALSE]
        ELSE [w |-> w4, err |-> w4.err]

\* (s *Session) flowPhaseOne(), as one computation
RECURSIVE flowPhaseOne(_, _)
flowPhaseOne(S, fuel) ==
    IF S.fault # "" THEN S
    ELSE IF fuel = 0 THEN Fail(S, "loop: flowPhaseOne")
    ELSE LET r == IF S.ctx.LowestLabel THEN getLowestStrongRoot(S) ELSE getHighestStrongRoot(S) IN
         IF r.strongRoot = nil THEN r.S
         ELSE flowPhaseOne(processRoot(r.S, r.strongRoot), fuel - 1)

\* a bytes.Buffer
Buffer == [lines |-> << >>, left |-> -1, err |-> FALSE]

\* (s *Session) process(w, header), as one computation: the writer afterwards
\* and the error returned; a Session that panicked wrote nothing
process(S, w, header) ==
    LET S1 == recoverFlow(flowPhaseOne(simpleInitialization(S), Fuel * Fuel)) IN
    IF S1.fault # "" THEN [S |-> S1, w |-> w, err |-> FALSE]
    ELSE [S |-> S1] @@ result(S1, w, header)

\* ------------------------------------------------------------- the inputs
Arc(from, to, capacity) == [From |-> from, To |-> to, Capacity |-> capacity]

Graph(numNodes, source, sink, arcs) ==
    [numNodes |-> numNodes, numArcs |-> Len(arcs), source |-> source, sink |-> sink,
     arcs |-> arcs]

\* _data/dimacsMaxf.txt
dimacsMaxf ==
    Graph(6, 1, 6, << Arc(1, 2, 5), Arc(1, 3, 15), Arc(2, 4, 5), Arc(2, 5, 5),
                      Arc(3, 4, 5), Arc(3, 5, 5), Arc(4, 6, 15), Arc(5, 6, 5) >>)

\* the spec's further scenarios: the chain 1->2->3->4 with capacities 7, 3, 9
chain == Graph(4, 1, 4, << Arc(1, 2, 7), Arc(2, 3, 3), Arc(3, 4, 9) >>)

\* two parallel arcs 1->2 feeding the arc 2->3
parallel == Graph(3, 1, 3, << Arc(1, 2, 5), Arc(1, 2, 5), Arc(2, 3, 5) >>)

\* source, two middles, sink, all capacities 10
bipartite ==
    Graph(4, 1, 4, << Arc(1, 2, 10), Arc(1, 3, 10), Arc(2, 4, 10), Arc(3, 4, 10) >>)

\* one arc source -> sink
sourceSink == Graph(2, 1, 2, << Arc(1, 2, 4) >>)

\* no arc reaches the sink
disconnected == Graph(3, 1, 3, << Arc(1, 2, 3) >>)

\* a self-loop, an arc into the source and an arc out of the sink among the
\* arcs of a path; the source is node 2 and the sink node 1
dropped ==
    Graph(4, 2, 1, << Arc(3, 3, 2), Arc(2, 3, 3), Arc(3, 2, 1), Arc(1, 4, 2),
                      Arc(3, 4, 2), Arc(4, 1, 2), Arc(4, 3, 1) >>)

\* an arc source -> sink beside a path
shortcut == Graph(3, 1, 3, << Arc(1, 3, 2), Arc(1, 2, 3), Arc(2, 3, 1) >>)

\* three paths into node 2 and one arc out of it: the policies pick different
\* paths for the one unit of flow
funnel ==
    Graph(5, 1, 5, << Arc(1, 2, 1), Arc(1, 3, 1), Arc(1, 4, 1), Arc(2, 5, 1),
                      Arc(3, 2, 1), Arc(4, 2, 1) >>)

\* two arcs from node 2 into the sink, of more capacity than node 2 receives
sinkArcs == Graph(3, 1, 3, << Arc(1, 2, 1), Arc(2, 3, 2), Arc(2, 3, 2) >>)

\* a cycle fed by the source and an arc into the sink from a node the source
\* does not reach
severed ==
    Graph(5, 1, 5, << Arc(1, 2, 2), Arc(2, 3, 1), Arc(3, 2, 1), Arc(4, 5, 2),
                      Arc(4, 2, 1) >>)

\* _data/dimacsMaxf.txt with more capacity on the arc 2 -> 5, which a merger
\* inverts while it has capacity left
inverted ==
    Graph(6, 1, 6, << Arc(1, 2, 5), Arc(1, 3, 15), Arc(2, 4, 5), Arc(2, 5, 12),
                      Arc(3, 4, 5), Arc(3, 5, 5), Arc(4, 6, 15), Arc(5, 6, 5) >>)

\* nodes 2 and 3 merge into node 5, whose excess then exceeds the flow on the
\* arc 2 -> 5 it is pushed back along when node 2 merges into node 4
pushback ==
    Graph(6, 1, 6, << Arc(1, 2, 3), Arc(1, 3, 3), Arc(2, 5, 3), Arc(3, 5, 3),
                      Arc(5, 6, 1), Arc(2, 4, 5), Arc(4, 6, 9) >>)

\* node 2 merges under node 3 and node 3 under node 5, then node 2, two tree
\* edges below the root 5, merges into the tree of node 4 that holds node 6
deep ==
    Graph(7, 1, 7, << Arc(1, 2, 3), Arc(2, 3, 5), Arc(2, 4, 5), Arc(3, 5, 5), Arc(3, 7, 1),
                      Arc(5, 7, 1), Arc(4, 7, 9), Arc(1, 6, 1), Arc(6, 4, 2) >>)

\* node 2 scans its pool << 2->3, 2->5, 2->7, 2->4 >> three times at label 1:
\* it merges into node 5 over the second entry and into node 4 over the entry
\* swapped into its place, each time keeping excess, and then resumes at the
\* second entry and finds nothing
resume ==
    Graph(7, 1, 6, << Arc(1, 2, 3), Arc(1, 3, 1), Arc(1, 7, 1), Arc(2, 3, 1), Arc(2, 5, 1),
                      Arc(2, 7, 1), Arc(2, 4, 1), Arc(5, 6, 2), Arc(4, 6, 2) >>)

Scenarios ==
    { dimacsMaxf, chain, parallel, bipartite, sourceSink, disconnected, dropped,
      shortcut, funnel, sinkArcs, severed, inverted, pushback, deep, resume }

\* the arcs between n nodes that readDimacsFile places in an outOfTree list (no
\* self-loop, none into the source 1, none out of the sink n, not the arc from
\* the source to the sink), in the order of the file
Links(n) ==
    SelectSeq([k \in 1..(n * n) |-> << ((k - 1) \div n) + 1, ((k - 1) % n) + 1 >>],
              LAMBDA p : p[1] # p[2] /\ p[1] # n /\ p[2] # 1 /\ p # << 1, n >>)

\* every assignment of capacities 0..MaxCap to the arcs of Links(n)
Family(n) ==
    { Graph(n, 1, n, [i \in 1..Len(Links(n)) |->
                        Arc(Links(n)[i][1], Links(n)[i][2], f[i])]) :
        f \in [1..Len(Links(n)) -> 0..MaxCap] }

Graphs == UNION { Family(n) : n \in 2..MaxNodes }

\* the graphs whose only arc goes from the source to the sink, for every choice
\* of the source and the sink among the nodes
SingleArcs ==
    { g \in UNION { { Graph(n, from, to, << Arc(from, to, c) >>) :
                        from \in 1..n, to \in 1..n, c \in 0..MaxCap } :
                      n \in 2..MaxNodes } :
        g.source # g.sink }

\* --------------------------------------------------------- the state machine
VARIABLES
    s,           \* the Session
    pc,          \* the position of the current Run call inside process
    strongRoot,  \* flowPhaseOne's strongRoot
    tempNode,    \* the node the last loop of recoverFlow stands at
    iteration,   \* recoverFlow's iteration
    w,           \* the io.Writer of the current Run call
    err,         \* whether the last Run call returned an error
    solves,      \* the Run calls the Session has completed
    input,       \* the graph of the current Run call
    calls        \* the entry points called on the Session, in order

vars == << s, pc, strongRoot, tempNode, iteration, w, err, solves, input, calls >>

Contexts == [LowestLabel : BOOLEAN, FifoBuckets : BOOLEAN, DisplayCut : BOOLEAN]

Init ==
    /\ s \in { NewSession(c) : c \in Contexts }
    /\ pc = "idle"
    /\ strongRoot = nil
    /\ tempNode = nil
    /\ iteration = 0
    /\ w = Buffer
    /\ err = FALSE
    /\ solves = 0
    /\ input = Graph(0, 0, 0, << >>)
    /\ calls = << >>

\* the next position: a Session that panicked ends the program
Goto(S, next) == IF S.fault # "" THEN "panic" ELSE next

\* the files of the next RunReadWriter call: any graph for the first call on a
\* Session, a scenario or a single arc after a scenario for the later ones
Files ==
    IF solves = 0 THEN Scenarios \cup Graphs \cup SingleArcs
    ELSE IF input \in Scenarios THEN Scenarios \cup SingleArcs ELSE {}

\* the slices of the next RunNAWriter call: a scenario, after a scenario
Slices == IF solves = 0 \/ input \in Scenarios THEN Scenarios ELSE {}

\* RunReadWriter(r, w) up to its call of process
RunReadWriter ==
    /\ pc = "idle"
    /\ solves < MaxSolves
    /\ \E g \in Files :
        /\ s' = readDimacsFile([s EXCEPT !.stats = statistics, !.stale = FALSE], g)
        /\ input' = g
    /\ pc' = Goto(s', "init")
    /\ w' = Buffer
    /\ calls' = Append(calls, "RunReadWriter")
    /\ UNCHANGED << strongRoot, tempNode, iteration, err, solves >>

\* RunNAWriter(numNodes, numArcs, nodes, arcs, w) up to its call of process
RunNAWriter ==
    /\ pc = "idle"
    /\ solves < MaxSolves
    /\ \E g \in Slices :
        /\ s' = parseNA([s EXCEPT !.stale = FALSE], g)
        /\ input' = g
    /\ pc' = Goto(s', "init")
    /\ w' = Buffer
    /\ calls' = Append(calls, "RunNAWriter")
    /\ UNCHANGED << strongRoot, tempNode, iteration, err, solves >>

\* a new Session loaded through a SessionInitializer; the package has no
\* entry point that solves a Session loaded this way
InitializerComplete ==
    /\ pc = "idle"
    /\ calls = << >>
    /\ \E g \in Scenarios :
        /\ s' = SessionInitializer(s, g)
        /\ input' = g
    /\ pc' = Goto(s', "loaded")
    /\ calls' = << "Complete" >>
    /\ UNCHANGED << strongRoot, tempNode, iteration, w, err, solves >>

\* process: s.simpleInitialization()
SimpleInitialization ==
    /\ pc = "init"
    /\ s' = simpleInitialization(s)
    /\ pc' = Goto(s', "phase1")
    /\ strongRoot' = nil
    /\ UNCHANGED << tempNode, iteration, w, err, solves, input, calls >>

\* flowPhaseOne: strongRoot = s.get*StrongRoot() and the loop test
GetStrongRoot ==
    /\ pc = "phase1"
    /\ LET r == IF s.ctx.LowestLabel THEN getLowestStrongRoot(s) ELSE getHighestStrongRoot(s) IN
       /\ s' = r.S
       /\ strongRoot' = r.strongRoot
       /\ pc' = Goto(r.S, IF r.strongRoot = nil THEN "recover" ELSE "root")
    /\ UNCHANGED << tempNode, iteration, w, err, solves, input, calls >>

\* flowPhaseOne: s.processRoot(strongRoot)
ProcessRoot ==
    /\ pc = "root"
    /\ s' = processRoot(s, strongRoot)
    /\ pc' = Goto(s', "phase1")
    /\ UNCHANGED << strongRoot, tempNode, iteration, w, err, solves, input, calls >>

\* process: s.recoverFlow() up to its last loop
RecoverFlow ==
    /\ pc = "recover"
    /\ s' = recoverFlowPools(s)
    /\ pc' = Goto(s', "decompose")
    /\ tempNode' = 1
    /\ iteration' = 1
    /\ UNCHANGED << strongRoot, w, err, solves, input, calls >>

\* the last loop of recoverFlow: iteration++ and tempNode.decompose(s.source,
\* &iteration) on the next node with positive excess, or the return
Decompose ==
    /\ pc = "decompose"
    /\ LET n == nextExcess(s, tempNode) IN
       IF n = nil
       THEN /\ pc' = "result"
            /\ UNCHANGED << s, tempNode, iteration >>
       ELSE LET r == decompose(s, n, iteration + 1) IN
            /\ s' = r.S
            /\ tempNode' = n
            /\ iteration' = r.iteration
            /\ pc' = Goto(r.S, "decompose")
    /\ UNCHANGED << strongRoot, w, err, solves, input, calls >>

\* process: return s.result(w, h), and the return of the Run call
Result ==
    /\ pc = "result"
    /\ LET r == result(s, w, "") IN
       /\ w' = r.w
       /\ err' = r.err
    /\ pc' = "idle"
    /\ solves' = solves + 1
    /\ UNCHANGED << s, strongRoot, tempNode, iteration, input, calls >>

Next ==
    \/ RunReadWriter
    \/ RunNAWriter
    \/ InitializerComplete
    \/ SimpleInitialization
    \/ GetStrongRoot
    \/ ProcessRoot
    \/ RecoverFlow
    \/ Decompose
    \/ Result

Spec == Init /\ [][Next]_vars

\* ------------------------------------------------- two Sessions, interleaved
\* Under SpecPair every variable holds the pair of the two Sessions' values:
\* s[k] is the k-th Session, pc[k] the position of its Run call, and so on.

\* the label cursors read from the other Session, as if they were
\* package-level variables
OwnGlobalCursors(S, T) ==
    [S EXCEPT !.lowestStrongLabel = T.lowestStrongLabel,
              !.highestStrongLabel = T.highestStrongLabel]

\* the state an operation with receiver S works on, T being the other Session
\* of the program: the fields of S (the package has no package-level variable)
Own(S, T) == S

\* the values of the k-th Session and its Run call
Local(k) ==
    [s |-> s[k], pc |-> pc[k], strongRoot |-> strongRoot[k], tempNode |-> tempNode[k],
     iteration |-> iteration[k], w |-> w[k], err |-> err[k], solves |-> solves[k],
     input |-> input[k], calls |-> calls[k]]

\* RunReadWriter(r, w) on the text of graph g, up to its call of process
load(st, g) ==
    LET S1 == readDimacsFile([st.s EXCEPT !.stats = statistics, !.stale = FALSE], g) IN
    [st EXCEPT !.s = S1, !.input = g, !.pc = Goto(S1, "init"), !.w = Buffer,
               !.calls = Append(@, "RunReadWriter")]

\* the next operation of process, from position st.pc
step(st) ==
    CASE st.pc = "init" ->
           LET S1 == simpleInitialization(st.s) IN
           [st EXCEPT !.s = S1, !.pc = Goto(S1, "phase1"), !.strongRoot = nil]
      [] st.pc = "phase1" ->
           LET r == IF st.s.ctx.LowestLabel THEN getLowestStrongRoot(st.s)
                    ELSE getHighestStrongRoot(st.s) IN
           [st EXCEPT !.s = r.S, !.strongRoot = r.strongRoot,
                      !.pc = Goto(r.S, IF r.strongRoot = nil THEN "recover" ELSE "root")]
      [] st.pc = "root" ->
           LET S1 == processRoot(st.s, st.strongRoot) IN
           [st EXCEPT !.s = S1, !.pc = Goto(S1, "phase1")]
      [] st.pc = "recover" ->
           LET S1 == recoverFlowPools(st.s) IN
           [st EXCEPT !.s = S1, !.pc = Goto(S1, "decompose"), !.tempNode = 1,
                      !.iteration = 1]
      [] st.pc = "decompose" ->
           LET n == nextExcess(st.s, st.tempNode) IN
           IF n = nil THEN [st EXCEPT !.pc = "result"]
           ELSE LET r == decompose(st.s, n, st.iteration + 1) IN
                [st EXCEPT !.s = r.S, !.tempNode = n, !.iteration = r.iteration,
                           !.pc = Goto(r.S, "decompose")]
      [] st.pc = "result" ->
           LET r == result(st.s, st.w, "") IN
           [st EXCEPT !.w = r.w, !.err = r.err, !.pc = "idle", !.solves = @ + 1]
      [] OTHER -> st

\* the variables with the values of the k-th Session replaced by those of st
Store(k, st) ==
    /\ s' = [s EXCEPT ![k] = st.s]
    /\ pc' = [pc EXCEPT ![k] = st.pc]
    /\ strongRoot' = [strongRoot EXCEPT ![k] = st.strongRoot]
    /\ tempNode' = [tempNode EXCEPT ![k] = st.tempNode]
    /\ iteration' = [iteration EXCEPT ![k] = st.iteration]
    /\ w' = [w EXCEPT ![k] = st.w]
    /\ err' = [err EXCEPT ![k] = st.err]
    /\ solves' = [solves EXCEPT ![k] = st.solves]
    /\ input' = [input EXCEPT ![k] = st.input]
    /\ calls' = [calls EXCEPT ![k] = st.calls]

\* the inputs of the two Sessions
PairFiles == { chain, funnel, disconnected, shortcut }

InitPair ==
    /\ s \in { << NewSession(c1), NewSession(c2) >> : c1, c2 \in Contexts }
    /\ pc = << "idle", "idle" >>
    /\ strongRoot = << nil, nil >>
    /\ tempNode = << nil, nil >>
    /\ iteration = << 0, 0 >>
    /\ w = << Buffer, Buffer >>
    /\ err = << FALSE, FALSE >>
    /\ solves = << 0, 0 >>
    /\ input = << Graph(0, 0, 0, << >>), Graph(0, 0, 0, << >>) >>
    /\ calls = << << >>, << >> >>

\* the k-th Session, as its next operation sees it
Seen(k) == [Local(k) EXCEPT !.s = Own(s[k], s[3 - k])]

\* the first Session starts its solve
RunFirst ==
    /\ pc[1] = "idle" /\ solves[1] = 0
    /\ \E g \in PairFiles : Store(1, load(Seen(1), g))

\* the second Session starts its solve
RunSecond ==
    /\ pc[2] = "idle" /\ solves[2] = 0
    /\ \E g \in PairFiles : Store(2, load(Seen(2), g))

\* the first Session takes the next step of its solve
StepFirst ==
    /\ pc[1] \in {"init", "phase1", "root", "recover", "decompose", "result"}
    /\ Store(1, step(Seen(1)))

\* the second Session takes the next step of its solve
StepSecond ==
    /\ pc[2] \in {"init", "phase1", "root", "recover", "decompose", "result"}
    /\ Store(2, step(Seen(2)))

NextPair == RunFirst \/ RunSecond \/ StepFirst \/ StepSecond

SpecPair == InitPair /\ [][NextPair]_vars

\* ------------------------------------------------- quickSort on its own
\* quickSort applied to a range of a list of MaxArcs arcs: s holds the list
\* arr, the flow of every arc and the range, input the list before the call
SortInputs ==
    { [arr |-> [k \in 1..MaxArcs |-> k], flow |-> f, first |-> first, last |-> last] :
        f \in [1..MaxArcs -> 0..MaxCap], first \in 0..(MaxArcs - 1), last \in 0..(MaxArcs - 1) }

InitSort ==
    /\ s \in { x \in SortInputs : x.first <= x.last }
    /\ pc = "unsorted"
    /\ strongRoot = nil
    /\ tempNode = nil
    /\ iteration = 0
    /\ w = Buffer
    /\ err = FALSE
    /\ solves = 0
    /\ input = s.arr
    /\ calls = << >>

\* quickSort(arr, first, last)
QuickSort ==
    /\ pc = "unsorted"
    /\ s' = [s EXCEPT !.arr = quickSort(s.arr, s.flow, s.first, s.last)]
    /\ pc' = "sorted"
    /\ calls' = << "quickSort" >>
    /\ UNCHANGED << strongRoot, tempNode, iteration, w, err, solves, input >>

SpecSort == InitSort /\ [][QuickSort]_vars

\* ------------------------------------------------- one bucket on its own
\* insertions and head removals on bucket 1 of a Session of MaxNodes nodes:
\* input lists the nodes inserted and not yet removed, oldest first, iteration
\* counts the insertions, solves the removals, strongRoot is the node the last
\* removal returned, tempNode the oldest (FIFO) or newest (LIFO) node before
\* it, err tells whether a removal has emptied the bucket
InitBucket ==
    /\ s \in { Allocate(NewSession(c), MaxNodes, 0) : c \in Contexts }
    /\ pc = "bucket"
    /\ strongRoot = nil
    /\ tempNode = nil
    /\ iteration = 0
    /\ w = Buffer
    /\ err = FALSE
    /\ solves = 0
    /\ input = << >>
    /\ calls = << >>

\* s.addToStrongBucket(n, s.strongRoots[1]) for a node that is in no list
Insert ==
    /\ pc = "bucket"
    /\ iteration < MaxInserts
    /\ \E n \in 1..MaxNodes :
          /\ \A k \in 1..Len(input) : input[k] # n
          /\ s' = addToStrongBucket(s, n, 1)
          /\ input' = Append(input, n)
    /\ iteration' = iteration + 1
    /\ UNCHANGED << pc, strongRoot, tempNode, w, err, solves, calls >>

\* strongRoot = strongRoots[1].start; strongRoots[1].start = strongRoot.next;
\* strongRoot.next = nil
Remove ==
    /\ pc = "bucket"
    /\ s.strongRoots[1].start # nil
    /\ input # << >>
    /\ s' = PopStart(s, 1).S
    /\ strongRoot' = PopStart(s, 1).strongRoot
    /\ tempNode' = IF s.ctx.FifoBuckets THEN Head(input) ELSE input[Len(input)]
    /\ input' = IF s.ctx.FifoBuckets THEN Tail(input) ELSE SubSeq(input, 1, Len(input) - 1)
    /\ err' = (err \/ Len(input) = 1)
    /\ solves' = solves + 1
    /\ UNCHANGED << pc, iteration, w, calls >>

NextBucket == Insert \/ Remove

SpecBucket == InitBucket /\ [][NextBucket]_vars

\* ------------------------------------------------- a writer that fails
\* one RunReadWriter call on a new Session, on a single arc from the source to
\* the sink or on _data/dimacsMaxf.txt, with an io.Writer whose first w.left
\* writes succeed and whose next write returns an error
InitWrite ==
    /\ s \in { NewSession(c) : c \in Contexts }
    /\ pc = "idle"
    /\ strongRoot = nil
    /\ tempNode = nil
    /\ iteration = 0
    /\ w = Buffer
    /\ err = FALSE
    /\ solves = 0
    /\ input = Graph(0, 0, 0, << >>)
    /\ calls = << >>

\* RunReadWriter(r, w) up to its call of process, with a writer that fails
RunReadWriterFailing ==
    /\ pc = "idle"
    /\ solves = 0
    /\ \E g \in {sourceSink, dimacsMaxf} :
        /\ s' = readDimacsFile([s EXCEPT !.stats = statistics, !.stale = FALSE], g)
        /\ input' = g
    /\ \E n \in 0..MaxWrites : w' = [lines |-> << >>, left |-> n, err |-> FALSE]
    /\ pc' = Goto(s', "init")
    /\ calls' = Append(calls, "RunReadWriter")
    /\ UNCHANGED << strongRoot, tempNode, iteration, err, solves >>

NextWrite ==
    \/ RunReadWriterFailing
    \/ SimpleInitialization
    \/ GetStrongRoot
    \/ ProcessRoot
    \/ RecoverFlow
    \/ Decompose
    \/ Result

SpecWrite == InitWrite /\ [][NextWrite]_vars

\* ------------------------------------------------------------- the claims
\* a Run call has returned: w holds its output, s the final state of the solve
Returned == pc = "idle" /\ solves > 0

\* recoverFlow has returned and result has not run yet
Recovered == pc = "result"

Has(line) == \E k \in 1..Len(w.lines) : w.lines[k] = line

\* the `s <mincut>` lines of an output
SolutionLines(lines) == SelectSeq(lines, LAMBDA l : l.k = "s")

\* the `f <from> <to> <flow>` lines of an output
FlowLines(lines) == SelectSeq(lines, LAMBDA l : l.k = "f")

\* the capacity of the cut (X, complement of X) of graph g
CutCapacity(g, X) ==
    SumSeq([k \in 1..g.numArcs |->
              IF g.arcs[k].From \in X /\ g.arcs[k].To \notin X
              THEN g.arcs[k].Capacity ELSE 0])

\* the maximum s-t flow of graph g, as the least capacity of its s-t cuts
MaxFlow(g) ==
    LET cuts == { X \in SUBSET (1..g.numNodes) : g.source \in X /\ g.sink \notin X }
    IN  CHOOSE m \in { CutCapacity(g, X) : X \in cuts } :
            \A X \in cuts : m <= CutCapacity(g, X)

\* the net flow into the sink
NetInflow(S) == ArcExcess(S, S.sink)

\* the output of a fresh Session with Context c run on graph g alone
Fresh(c, g) == process(readDimacsFile(NewSession(c), g), Buffer, "").w.lines

\* the Context of the Session with the default policy (highest label, LIFO)
DefaultPolicy(c) == [c EXCEPT !.LowestLabel = FALSE, !.FifoBuckets = FALSE]

\* C1: after simpleInitialization, flowPhaseOne and recoverFlow of every solve,
\* under each policy, the net flow into the sink equals the capacity of the arcs
\* from {label >= gap} to {label < gap}, that value is the maximum s-t flow of
\* the input graph, and the output reports the solution as optimal.
C1_MaxFlowEqualsMinCut ==
    /\ Recovered => /\ NetInflow(s) = Mincut(s)
                    /\ Mincut(s) = MaxFlow(input)
    /\ Returned => Has(Comment("Solution checks as optimal"))

\* C1 on the first solve of a Session (holds)
C1_OnFirstSolve == Len(calls) = 1 => C1_MaxFlowEqualsMinCut

\* C2: when recoverFlow returns, every arc of arcList has 0 <= flow <= capacity.
C2_FlowWithinCapacity ==
    Recovered => \A a \in 1..s.numArcs :
                    0 <= s.arcList[a].flow /\ s.arcList[a].flow <= s.arcList[a].capacity

\* recoverFlow returned after decompose calls, with an arc carrying part of its
\* capacity and an arc left without flow
C2_Witness ==
    /\ Recovered
    /\ iteration > 1
    /\ \E a \in 1..s.numArcs : 0 < s.arcList[a].flow /\ s.arcList[a].flow < s.arcList[a].capacity
    /\ \E a \in 1..s.numArcs : s.arcList[a].flow = 0 /\ s.arcList[a].capacity > 0

\* C3: when recoverFlow returns, every node other than the source and the sink
\* has as much flow on its incoming arcs as on its outgoing arcs.
C3_FlowConserved ==
    Recovered => \A n \in 1..s.numNodes :
                    n \notin { s.source, s.sink } => ArcExcess(s, n) = 0

\* recoverFlow returned after decompose calls, and flow passes through a node
C3_Witness ==
    /\ Recovered
    /\ iteration > 1
    /\ \E a \in 1..s.numArcs :
          s.arcList[a].flow > 0 /\ s.arcList[a].to \notin { s.source, s.sink }

\* C4: a graph solved on fresh Sessions, one per policy (LowestLabel x
\* FifoBuckets), has the same `s <mincut>` lines in all four outputs: the output
\* of the first solve of each Session has the `s` lines of the fresh Session with
\* the default policy.
C4_PoliciesAgree ==
    (Returned /\ solves = 1) =>
        SolutionLines(w.lines) = SolutionLines(Fresh(DefaultPolicy(s.ctx), input))

\* a fresh lowest-label FIFO Session reports a positive mincut, with arc flows
\* that differ from those of the default policy
C4_Witness ==
    /\ Returned /\ solves = 1
    /\ s.ctx.LowestLabel /\ s.ctx.FifoBuckets /\ ~s.ctx.DisplayCut
    /\ \E k \in 1..Len(w.lines) : w.lines[k].k = "s" /\ w.lines[k].a > 0
    /\ FlowLines(w.lines) # FlowLines(Fresh(DefaultPolicy(s.ctx), input))

\* the output the test TestRunNAWriter expects for dimacsMaxf
wantDimacsMaxf ==
    << Comment("Dimacs-format maximum flow result generated by pseudo.go"),
       Comment(""),
       Comment("Optimal flow using  Hochbaum's PseudoFlow algorithm"),
       Comment(""),
       Comment("Runtime Configuration -"),
       Comment("Highest label pseudoflow algorithm"),
       Comment("Using LIFO buckets"),
       Comment("Solution checks as feasible"),
       Comment("Solution checks as optimal"),
       Line("s", "", 15, 0, 0),
       Comment(""),
       Comment("SRC DST FLOW"),
       Line("f", "", 1, 2, 5), Line("f", "", 2, 5, 0), Line("f", "", 3, 4, 5),
       Line("f", "", 5, 6, 5), Line("f", "", 4, 6, 10), Line("f", "", 3, 5, 5),
       Line("f", "", 2, 4, 5), Line("f", "", 1, 3, 10) >>

C6_PhaseOneEnds == pc = "phase1" => flowPhaseOne(s, Fuel).fault = ""

\* C6 on the first solve of a Session (holds)
C6_OnFirstSolve == Len(calls) = 1 => C6_PhaseOneEnds

\* the flow on all arcs
TotalFlow(S) == SumSeq([a \in 1..S.numArcs |-> S.arcList[a].flow])

\* C7: from every state at the end of phase one recoverFlow returns, with every
\* node's excess 0; no step of it fails; each decompose call lowers the excess of
\* its node or, leaving it, the flow on the arcs (a cycle cancelled); and
\* decompose never reads outOfTree[nextArc] with nextArc >= numberOutOfTree.
C7_RecoverFlowEnds ==
    /\ [](Recovered => \A n \in 1..s.numNodes : s.adjacencyList[n].excess = 0)
    /\ [](~s.stale)
    /\ [][(pc = "recover" \/ pc = "decompose") => (pc' # "panic")]_vars
    /\ [][(pc = "decompose" /\ pc' = "decompose") =>
            (\/ s'.adjacencyList[tempNode'].excess < s.adjacencyList[tempNode'].excess
             \/ /\ s'.adjacencyList[tempNode'].excess = s.adjacencyList[tempNode'].excess
                /\ TotalFlow(s') < TotalFlow(s))]_vars

\* recoverFlow returned after more than one decompose call
C7_Witness ==
    /\ Recovered
    /\ iteration > 2
    /\ \A n \in 1..s.numNodes : s.adjacencyList[n].excess = 0

\* C8: the output of the second of two RunReadWriter calls on one Session is the
\* output of a fresh Session with the same Context run on the second input alone.
C8_SolvesIndependent ==
    (calls = << "RunReadWriter", "RunReadWriter" >> /\ pc \in { "idle", "panic" }) =>
        (pc = "idle" /\ w.lines = Fresh(s.ctx, input))

\* C9: at the start of every solve, through either entry point, the counters
\* pushes, mergers, relabels, gaps and arcScans are all zero.
C9_CountersZeroAtStart == pc = "init" => s.stats = statistics

OnlySourceToSink(g) ==
    g.numArcs = 1 /\ g.arcs[1].From = g.source /\ g.arcs[1].To = g.sink

\* C11: when a Run call on a graph whose only arc goes from the source to the
\* sink with capacity C has returned, under every policy combination, the
\* output has the line `s C`, the arc's flow is C and, in flow mode, the
\* output has the one line `f source sink C`
C11_SourceToSinkArc ==
    (Returned /\ OnlySourceToSink(input)) =>
        LET a == input.arcs[1] IN
        /\ SolutionLines(w.lines) = << Line("s", "", a.Capacity, 0, 0) >>
        /\ s.arcList[1].flow = a.Capacity
        /\ ~s.ctx.DisplayCut =>
              FlowLines(w.lines) = << Line("f", "", a.From, a.To, a.Capacity) >>

\* a lowest-label FIFO Session has returned from such a graph of more than two
\* nodes, with C > 0 and the source not node 1
C11_Witness ==
    /\ Returned /\ OnlySourceToSink(input)
    /\ s.ctx.LowestLabel /\ s.ctx.FifoBuckets /\ ~s.ctx.DisplayCut
    /\ input.numNodes > 2 /\ input.source # 1 /\ input.arcs[1].Capacity > 0
    /\ Has(Line("f", "", input.source, input.sink, input.arcs[1].Capacity))

\* the nodes of graph g that the nodes of X reach in at most k arcs of positive
\* capacity
RECURSIVE Reach(_, _, _)
Reach(g, X, k) ==
    IF k = 0 THEN X
    ELSE Reach(g, X \cup { g.arcs[i].To :
                              i \in { j \in 1..g.numArcs :
                                         g.arcs[j].From \in X /\ g.arcs[j].Capacity > 0 } },
               k - 1)

\* no directed path from the source to the sink
NoPath(g) == g.numNodes > 0 /\ g.sink \notin Reach(g, {g.source}, g.numNodes)

\* C12: when a Run call on a graph with no directed path from the source to
\* the sink has returned, under every policy combination, the output has the
\* line `s 0` and every arc's flow is 0, in arcList and in the f lines
C12_NoPathZeroFlow ==
    (Returned /\ NoPath(input)) =>
        /\ SolutionLines(w.lines) = << Line("s", "", 0, 0, 0) >>
        /\ \A i \in 1..s.numArcs : s.arcList[i].flow = 0
        /\ \A k \in 1..Len(w.lines) : w.lines[k].k = "f" => w.lines[k].c = 0

\* the same on the first solve of a Session
C12_OnFirstSolve == Len(calls) = 1 => C12_NoPathZeroFlow

\* arcList[i] is a self-loop, enters the source or leaves the sink
Dropped(S, i) ==
    LET a == S.arcList[i] IN a.from = a.to \/ a.to = S.source \/ a.from = S.sink

\* C13: from the load on (readDimacsFile, the loader of RunNAWriter,
\* SessionInitializer.Complete), through initialization, phase one and recovery,
\* an arc that is a self-loop, enters the source or leaves the sink is in no
\* slot of any out-of-tree pool, is no node's arcToParent and has flow 0
C13_DroppedArcsUntouched ==
    \A i \in 1..Len(s.arcList) :
        Dropped(s, i) =>
            /\ s.arcList[i].flow = 0
            /\ \A n \in 1..Len(s.adjacencyList) :
                  /\ s.adjacencyList[n].arcToParent # i
                  /\ \A k \in 1..Len(s.adjacencyList[n].outOfTree) :
                        s.adjacencyList[n].outOfTree[k] # i

\* recoverFlow has returned on a graph with arcs of the three kinds, all of
\* positive capacity, after a phase one that merged trees
C13_Witness ==
    /\ Recovered
    /\ s.stats.Mergers > 0
    /\ \E i, j, k \in 1..Len(s.arcList) :
          /\ s.arcList[i].from = s.arcList[i].to /\ s.arcList[i].capacity > 0
          /\ s.arcList[j].to = s.source /\ s.arcList[j].capacity > 0
          /\ s.arcList[k].from = s.sink /\ s.arcList[k].capacity > 0

\* the Session and the writer after the solve of graph g alone on a new
\* Session with Context c
Alone(c, g) ==
    process(readDimacsFile([NewSession(c) EXCEPT !.stats = statistics], g), Buffer, "")

CutLines(lines) == SelectSeq(lines, LAMBDA l : l.k = "n")

\* C15: when a Run call with DisplayCut set has returned, the output has one
\* line `n i` for each node i whose label is >= gap and no other n line; the
\* source is among these nodes and the sink is not
C15_CutIsSourceSide ==
    (Returned /\ s.ctx.DisplayCut) =>
        LET listed == { CutLines(w.lines)[k].a : k \in 1..Len(CutLines(w.lines)) } IN
        /\ listed = { i \in 1..s.numNodes : s.adjacencyList[i].label >= Gap(s) }
        /\ Len(CutLines(w.lines)) = Cardinality(listed)
        /\ s.source \in listed
        /\ s.sink \notin listed

\* a lowest-label Session has returned with a gap below numNodes, a node
\* besides the source listed and a node besides the sink not listed
C15_Witness ==
    /\ Returned /\ s.ctx.DisplayCut /\ s.ctx.LowestLabel
    /\ Gap(s) < s.numNodes
    /\ \E i, j \in 1..s.numNodes :
          /\ i # s.source /\ Has(Line("n", "", i, 0, 0))
          /\ j # s.sink /\ ~Has(Line("n", "", j, 0, 0))

\* a boundary between the operations of phase one: simpleInitialization has
\* returned, and a get*StrongRoot or a processRoot is about to be called or
\* phase one has ended
Boundary == pc \in {"phase1", "root", "recover"}

\* the nodes other than the source and the sink whose label is l
Labelled(S, l) ==
    { i \in 1..S.numNodes : i # S.source /\ i # S.sink /\ S.adjacencyList[i].label = l }

\* C16: at every boundary between the operations of phase one, for every
\* label l in 0..numNodes-1, labelCount[l] is the number of nodes other than
\* the source and the sink whose label is l
C16_LabelCountExact ==
    Boundary =>
        \A l \in 0..(s.numNodes - 1) : s.labelCount[l] = Cardinality(Labelled(s, l))

\* the end of a highest-label phase one that relabeled nodes and lifted the
\* trees above a gap, with nodes left at a label other than 0 and numNodes
C16_Witness ==
    /\ pc = "recover"
    /\ ~s.ctx.LowestLabel
    /\ s.stats.Relabels > 1 /\ s.stats.Gaps > 0
    /\ \E l \in 1..(s.numNodes - 1) : s.labelCount[l] > 0
    /\ \E i \in 1..s.numNodes : i # s.source /\ s.adjacencyList[i].label = s.numNodes

\* the nodes linked through `next` from node n on, at most fuel of them
RECURSIVE ListFrom(_, _, _)
ListFrom(S, n, fuel) ==
    IF n = nil \/ fuel = 0 THEN << >>
    ELSE << n >> \o ListFrom(S, S.adjacencyList[n].next, fuel - 1)

\* the nodes linked in the strong buckets, bucket after bucket
Bucketed(S) ==
    Concat([k \in 1..S.numNodes |->
              ListFrom(S, S.strongRoots[k - 1].start, S.numNodes + 1)])

\* the nodes linked in the child lists, parent after parent
Children(S) ==
    Concat([n \in 1..S.numNodes |->
              ListFrom(S, S.adjacencyList[n].childList, S.numNodes + 1)])

NoDuplicate(q) == \A i, j \in 1..Len(q) : q[i] = q[j] => i = j

C18_ArcToParentFromParent ==
    Boundary =>
        \A v \in 1..s.numNodes :
            LET nd == s.adjacencyList[v] IN
            nd.parent # nil =>
                /\ nd.arcToParent # nil
                /\ LET a == s.arcList[nd.arcToParent] IN
                   IF a.direction = 1 THEN a.from = nd.parent /\ a.to = v
                   ELSE a.from = v /\ a.to = nd.parent

\* C18, amended: at every boundary between the operations of phase one, for
\* every node v with a parent, v.arcToParent goes from v to v.parent when its
\* direction is 1 and from v.parent to v when its direction is 0
C18_ArcToParentFromChild ==
    Boundary =>
        \A v \in 1..s.numNodes :
            LET nd == s.adjacencyList[v] IN
            nd.parent # nil =>
                /\ nd.arcToParent # nil
                /\ LET a == s.arcList[nd.arcToParent] IN
                   IF a.direction = 1 THEN a.from = v /\ a.to = nd.parent
                   ELSE a.direction = 0 /\ a.from = nd.parent /\ a.to = v

\* after a merger that inverted a tree arc, one node hangs by an arc of
\* direction 1 and another by an arc of direction 0
C18_Witness ==
    /\ pc = "phase1"
    /\ s.stats.Mergers > 1
    /\ \E u, v \in 1..s.numNodes :
          /\ s.adjacencyList[u].parent # nil /\ s.adjacencyList[v].parent # nil
          /\ s.adjacencyList[u].arcToParent # nil /\ s.adjacencyList[v].arcToParent # nil
          /\ s.arcList[s.adjacencyList[u].arcToParent].direction = 1
          /\ s.arcList[s.adjacencyList[v].arcToParent].direction = 0

\* C19: from the load to the end of recoverFlow every node has
\* numberOutOfTree <= numAdjacent, its outOfTree buffer has numAdjacent slots,
\* and no append to outOfTree (at load, on a saturating push, in recoverFlow)
\* has written past the buffer
C19_PoolWithinBuffer ==
    /\ s.fault # "index: outOfTree"
    /\ pc \in {"init", "phase1", "root", "recover", "decompose", "result", "loaded"} =>
          \A n \in 1..s.numNodes :
              /\ s.adjacencyList[n].numberOutOfTree <= s.adjacencyList[n].numAdjacent
              /\ s.adjacencyList[n].numberOutOfTree >= 0
              /\ Len(s.adjacencyList[n].outOfTree) = s.adjacencyList[n].numAdjacent

\* recoverFlow has returned with a pool full to its buffer, after saturating
\* pushes in phase one and appends in recoverFlow
C19_Witness ==
    /\ Recovered
    /\ s.stats.Pushes > 1
    /\ iteration > 1
    /\ \E n \in 1..s.numNodes :
          /\ n # s.source /\ n # s.sink
          /\ s.adjacencyList[n].numAdjacent > 1
          /\ s.adjacencyList[n].numberOutOfTree = s.adjacencyList[n].numAdjacent

\* a step of one solve after simpleInitialization has returned
AfterInitialization ==
    /\ pc \in {"phase1", "root", "recover", "decompose", "result"}
    /\ s'.fault = ""

\* C20: from the end of simpleInitialization on, no step lowers a label and
\* every label stays in 0..numNodes; the root selection changes a label only
\* from 0 to 1 (a root of bucket 0) or to numNodes (liftAll, highest label
\* only), processRoot only by +1, the later steps not at all; and a node
\* whose label is numNodes keeps its label and its place in its tree and is
\* in no bucket nor the root that is processed
C20_LabelsMonotone ==
    [][AfterInitialization =>
        /\ \A n \in 1..s.numNodes :
              LET old == s.adjacencyList[n]
                  new == s'.adjacencyList[n]
              IN  /\ new.label >= old.label
                  /\ new.label \in 0..s.numNodes
                  /\ new.label # old.label =>
                        CASE pc = "phase1" ->
                               \/ old.label = 0 /\ new.label = 1
                               \/ new.label = s.numNodes /\ ~s.ctx.LowestLabel
                          [] pc = "root" -> new.label = old.label + 1
                          [] OTHER -> FALSE
                  /\ old.label = s.numNodes =>
                        /\ new.label = old.label
                        /\ new.parent = old.parent
                        /\ new.arcToParent = old.arcToParent
                        /\ new.childList = old.childList
                        /\ new.next = old.next
        /\ \A k \in 1..Len(Bucketed(s')) :
              s'.adjacencyList[Bucketed(s')[k]].label < s.numNodes
        /\ pc' = "root" => s'.adjacencyList[strongRoot'].label < s.numNodes]_vars

\* on the first solve of a Session a root is being processed after liftAll has
\* lifted a node to numNodes and other roots have been promoted or raised
C20_Witness ==
    /\ pc = "root"
    /\ solves = 0
    /\ s.fault = ""
    /\ s.stats.Gaps > 0
    /\ s.stats.Relabels > 1
    /\ s.adjacencyList[strongRoot].label \in 1..(s.numNodes - 1)
    /\ \E n \in 1..s.numNodes :
          /\ n # s.source
          /\ s.adjacencyList[n].label = s.numNodes

\* C21: throughout phase one, after every pushUpward and pushDownward (each
\* arc of the path is pushed once per pushExcess, so its flow at the end of
\* the step is its flow after its push), every arc has 0 <= flow <= capacity
C21_PseudoflowWithinCapacity ==
    pc \in {"phase1", "root", "recover"} =>
        \A a \in 1..Len(s.arcList) :
            /\ s.arcList[a].flow >= 0
            /\ s.arcList[a].flow <= s.arcList[a].capacity

\* phase one of the pushback graph has pushed upward into node 5 twice and
\* then downward along 2 -> 5, which is empty again, and upward along 2 -> 4,
\* which is partly filled
C21_Witness ==
    /\ pc = "phase1"
    /\ solves = 0
    /\ input = pushback
    /\ s.stats.Pushes > 3
    /\ \E a, b \in 1..Len(s.arcList) :
          /\ s.arcList[a].from = 2 /\ s.arcList[a].to = 5
          /\ s.arcList[a].flow = 0
          /\ s.arcList[b].from = 2 /\ s.arcList[b].to = 4
          /\ s.arcList[b].flow > 0
          /\ s.arcList[b].flow < s.arcList[b].capacity

\* every node of S other than the source and the sink holds as excess the flow
\* on the arcs into it minus the flow on the arcs out of it
ExcessIsNetFlow(S) ==
    \A n \in 1..S.numNodes :
        n \notin {S.source, S.sink} => S.adjacencyList[n].excess = ArcExcess(S, n)

\* C22: from the end of simpleInitialization to the end of recoverFlow the
\* excess of every node but the source and the sink is its inflow minus its
\* outflow, so a push takes from the child what it gives to the parent and
\* changes the arc by that amount; in processRoot a flow that went up was
\* added by pushUpward (the arc is still directed upward, or saturated and
\* flipped) and a flow that went down was subtracted by pushDownward
C22_ExcessIsNetFlow ==
    [][(pc \in {"init", "phase1", "root", "recover", "decompose"} /\ s'.fault = "") =>
        /\ ExcessIsNetFlow(s')
        /\ pc = "root" =>
              \A a \in 1..Len(s.arcList) :
                  LET old == s.arcList[a]
                      new == s'.arcList[a]
                  IN  /\ new.flow > old.flow =>
                            \/ new.direction = 1
                            \/ new.direction = 0 /\ new.flow = new.capacity
                      /\ new.flow < old.flow =>
                            \/ new.direction = 0
                            \/ new.direction = 1 /\ new.flow = 0]_vars

\* recoverFlow has returned on the pushback graph, where phase one pushed
\* upward and downward with and without saturation and recoverFlow returned
\* excess to the source
C22_Witness ==
    /\ Recovered
    /\ solves = 0
    /\ input = pushback
    /\ s.fault = ""
    /\ s.stats.Pushes > 3
    /\ ExcessIsNetFlow(s)
    /\ \A n \in 1..s.numNodes : s.adjacencyList[n].excess <= 0

\* C23: quickSort(arr, first, last) leaves arr[first..last] a permutation of
\* what it held, ordered by non-increasing flow, and the rest of arr as it
\* was, for every range, those of at most 6 elements included
C23_QuickSortSorts ==
    pc = "sorted" =>
        /\ { s.arr[k] : k \in (s.first + 1)..(s.last + 1) }
             = { input[k] : k \in (s.first + 1)..(s.last + 1) }
        /\ \A k \in 1..MaxArcs : (k < s.first + 1 \/ k > s.last + 1) => s.arr[k] = input[k]
        /\ \A k \in (s.first + 1)..s.last : s.flow[s.arr[k]] >= s.flow[s.arr[k + 1]]

\* the part of C23 the code keeps: the range is a permutation of what it held
\* and the rest of arr is as it was
C23_QuickSortPermutes ==
    pc = "sorted" =>
        /\ { s.arr[k] : k \in (s.first + 1)..(s.last + 1) }
             = { input[k] : k \in (s.first + 1)..(s.last + 1) }
        /\ \A k \in 1..MaxArcs : (k < s.first + 1 \/ k > s.last + 1) => s.arr[k] = input[k]

\* the live part outOfTree[nextArc..numberOutOfTree) of the pool of node n
Live(S, n) ==
    SubSeq(S.adjacencyList[n].outOfTree, S.adjacencyList[n].nextArc + 1,
           S.adjacencyList[n].numberOutOfTree)

\* the nodes recoverFlow prepares: not the source, not the sink, label >= gap
Prepared(S) ==
    { n \in 1..S.numNodes : n # S.source /\ n # S.sink /\ S.adjacencyList[n].label >= Gap(S) }

\* the live part of every prepared pool holds only arcs with positive flow
\* that enter the node
LivePoolsEnter(S) ==
    \A n \in Prepared(S) :
        \A k \in 1..Len(Live(S, n)) :
            /\ Live(S, n)[k] # nil
            /\ S.arcList[Live(S, n)[k]].flow > 0
            /\ S.arcList[Live(S, n)[k]].to = n

\* the live part of every prepared pool is ordered by non-increasing flow
LivePoolsOrdered(S) ==
    \A n \in Prepared(S) :
        \A k \in 1..(Len(Live(S, n)) - 1) :
            Live(S, n)[k] # nil /\ Live(S, n)[k + 1] # nil =>
                S.arcList[Live(S, n)[k]].flow >= S.arcList[Live(S, n)[k + 1]].flow

\* C24: when the decomposition loop of recoverFlow starts and after every
\* decompose call (with the minisort or nextArc++ it made at each node of its
\* path), the live part of the pool of every prepared node is ordered by
\* non-increasing flow and holds only arcs with positive flow entering the node
C24_LivePoolsSorted ==
    (pc \in {"decompose", "result"} /\ s.fault = "") =>
        LivePoolsEnter(s) /\ LivePoolsOrdered(s)

\* C24 on the first solve of a Session
C24_OnFirstSolve ==
    (pc \in {"decompose", "result"} /\ s.fault = "" /\ solves = 0) =>
        LivePoolsEnter(s) /\ LivePoolsOrdered(s)

\* the part of C24 about the arcs of the live part, on the first solve
C24_EnterOnFirstSolve ==
    (pc \in {"decompose", "result"} /\ s.fault = "" /\ solves = 0) => LivePoolsEnter(s)

\* the strong-label cursor of the policy of S
Cursor(S) == IF S.ctx.LowestLabel THEN S.lowestStrongLabel ELSE S.highestStrongLabel

\* C25: on return from simpleInitialization the strong-label cursor of the
\* policy is 1, whatever the cursors held before the call
C25_CursorIsOne ==
    [][(pc = "init" /\ pc' = "phase1") => Cursor(s') = 1]_vars

\* C25 for the first solve of a Session
C25_OnFirstSolve ==
    [][(pc = "init" /\ pc' = "phase1" /\ solves = 0) => Cursor(s') = 1]_vars

\* the nodes of bucket i of S, from start on
Bucket(S, i) == ListFrom(S, S.strongRoots[i].start, S.numNodes + 1)

\* getLowestStrongRoot returned none for a reason the claim allows: no bucket
\* holds a node, or the first bucket that does stands above an empty label
NoneAllowed(S) ==
    \/ \A i \in 0..(S.numNodes - 1) : S.strongRoots[i].start = nil
    \/ \E i \in 1..(S.numNodes - 1) :
          /\ S.strongRoots[i].start # nil
          /\ \A j \in 0..(i - 1) : S.strongRoots[j].start = nil
          /\ S.labelCount[i - 1] = 0

\* a call of getLowestStrongRoot that returns
LowestCall == pc = "phase1" /\ s.ctx.LowestLabel /\ s.fault = "" /\ s'.fault = ""

\* the effect C26 states for one call: the k nodes of bucket 0 get label 1,
\* labelCount[0] loses k, labelCount[1] and relabels gain k, bucket 0 is empty
\* on return, and none is returned only for an allowed reason
LowestEffect ==
    LET moved == Bucket(s, 0)
        k == Len(moved)
    IN  /\ \A m \in 1..k : s'.adjacencyList[moved[m]].label = 1
        /\ s.numNodes > 1 =>
              /\ s'.labelCount[0] = s.labelCount[0] - k
              /\ s'.labelCount[1] = s.labelCount[1] + k
        /\ s'.stats.Relabels = s.stats.Relabels + k
        /\ s'.strongRoots[0].start = nil
        /\ strongRoot' = nil => NoneAllowed(s')

\* C26: every call of getLowestStrongRoot first moves bucket 0 to bucket 1 and
\* then scans upward; bucket 0 is empty when it returns, and it returns none
\* only on a gap or when no bucket holds a node
C26_LowestPromotesFirst == [][LowestCall => LowestEffect]_vars

\* C26 for the first solve of a Session
C26_OnFirstSolve == [][(LowestCall /\ solves = 0) => LowestEffect]_vars

\* n is r or a descendant of r in the tree of S
RECURSIVE InTree(_, _, _, _)
InTree(S, n, r, fuel) ==
    IF n = r THEN TRUE
    ELSE IF n = nil \/ fuel = 0 THEN FALSE
    ELSE InTree(S, S.adjacencyList[n].parent, r, fuel - 1)

\* the nodes a step lifts to numNodes
Lifted == { n \in 1..s.numNodes :
              s.adjacencyList[n].label < s.numNodes /\ s'.adjacencyList[n].label = s.numNodes }

\* the levels whose bucket held a root that the step lifts
GapLevels ==
    { i \in 1..(s.numNodes - 1) :
        \E m \in 1..Len(Bucket(s, i)) : Bucket(s, i)[m] \in Lifted }

\* the roots of the buckets of the gap levels
GapRoots == UNION { { Bucket(s, i)[m] : m \in 1..Len(Bucket(s, i)) } : i \in GapLevels }

\* a call of getHighestStrongRoot that returns
HighestCall == pc = "phase1" /\ ~s.ctx.LowestLabel /\ s.fault = "" /\ s'.fault = ""

\* what a call does at its gaps, the gaps counter aside: the bucket of a gap
\* level stood above an empty label and is emptied, exactly the nodes of the
\* trees of its roots are lifted to numNodes, labelCount loses each of them at
\* its old label, and the root returned comes from a lower level
GapEffect ==
    /\ \A i \in GapLevels : s.labelCount[i - 1] = 0 /\ s'.strongRoots[i].start = nil
    /\ Lifted = { n \in 1..s.numNodes : \E r \in GapRoots : InTree(s, n, r, s.numNodes) }
    /\ \A l \in 2..(s.numNodes - 1) :
          s'.labelCount[l] =
              s.labelCount[l] - Cardinality({ n \in Lifted : s.adjacencyList[n].label = l })
    /\ (strongRoot' # nil /\ GapLevels # {}) =>
          \A i \in GapLevels : s'.adjacencyList[strongRoot'].label < i

\* C27: at a non-empty bucket i with labelCount[i-1] == 0 getHighestStrongRoot
\* increments gaps once for the gap, removes every node of bucket i and lifts
\* its whole tree to numNodes with labelCount decremented at each old label,
\* then goes on scanning the lower levels
C27_GapLiftsBucket ==
    [][HighestCall =>
        /\ GapEffect
        /\ s'.stats.Gaps = s.stats.Gaps + Cardinality(GapLevels)]_vars

\* C27 with gaps incremented once for every root removed from the bucket
C27_GapCountsRoots ==
    [][HighestCall =>
        /\ GapEffect
        /\ s'.stats.Gaps = s.stats.Gaps + Cardinality(GapRoots)]_vars

\* the first call of getHighestStrongRoot of a first solve has found a gap
\* below bucket 1, which held two roots, lifted both and counted two gaps
C27_Witness ==
    /\ pc = "recover"
    /\ ~s.ctx.LowestLabel
    /\ s.fault = ""
    /\ solves = 0
    /\ s.stats.Relabels = 0
    /\ s.stats.Gaps = 2
    /\ Cardinality({ n \in 1..s.numNodes :
                       n # s.source /\ s.adjacencyList[n].label = s.numNodes }) = 2

\* the arcs a step pushed flow along, and for such an arc whether the push
\* was upward (flow added), the child and the parent of the push
Pushed == { a \in 1..Len(s.arcList) : s'.arcList[a].flow # s.arcList[a].flow }
Upward(a) == s'.arcList[a].flow > s.arcList[a].flow
PushChild(a) == IF Upward(a) THEN s.arcList[a].from ELSE s.arcList[a].to
PushParent(a) == IF Upward(a) THEN s.arcList[a].to ELSE s.arcList[a].from

\* after the step the arc has no residual in the direction of its push
Saturated(a) ==
    IF Upward(a) THEN s'.arcList[a].flow = s'.arcList[a].capacity ELSE s'.arcList[a].flow = 0

\* after the step the arc is flipped, the tree edge is broken, the arc is in
\* the live pool of the parent and the child is in the bucket of its label
Detached(a) ==
    LET child == PushChild(a)
        pool == s'.adjacencyList[PushParent(a)]
    IN  /\ s'.arcList[a].direction = (IF Upward(a) THEN 0 ELSE 1)
        /\ s'.adjacencyList[child].parent = nil
        /\ \E k \in 1..pool.numberOutOfTree : pool.outOfTree[k] = a
        /\ \E m \in 1..Len(Bucket(s', s'.adjacencyList[child].label)) :
              Bucket(s', s'.adjacencyList[child].label)[m] = child

\* after the step the arc is the tree edge from the child to the parent, with
\* the direction of the push
Attached(a) ==
    LET child == PushChild(a) IN
    /\ s'.arcList[a].direction = (IF Upward(a) THEN 1 ELSE 0)
    /\ s'.adjacencyList[child].parent = PushParent(a)
    /\ s'.adjacencyList[child].arcToParent = a

\* a call of processRoot that returns
RootCall == pc = "root" /\ s.fault = "" /\ s'.fault = ""

\* C28, as stated: a push that leaves its arc without residual, the case
\* residual == child.excess included, flips and detaches it; only an arc that
\* keeps residual stays a tree edge
C28_SaturatedDetaches ==
    [][RootCall =>
        \A a \in Pushed : IF Saturated(a) THEN Detached(a) ELSE Attached(a)]_vars

\* C28 with the test the code makes: the push moves min(child.excess,
\* residual); the arc is flipped and detached exactly when the child keeps
\* excess (residual < child.excess), and then it is saturated; when the whole
\* excess is moved the tree is unchanged, also if that uses up the residual
C28_PartialPushDetaches ==
    [][RootCall =>
        \A a \in Pushed :
            IF s'.adjacencyList[PushChild(a)].excess > 0
            THEN Saturated(a) /\ Detached(a)
            ELSE s'.adjacencyList[PushChild(a)].excess = 0 /\ Attached(a)]_vars

\* phase one holds a tree edge that a push filled to its capacity without
\* detaching it, and a root that a saturating push detached with excess left
C28_Witness ==
    /\ pc = "phase1"
    /\ s.fault = ""
    /\ solves = 0
    /\ \E c \in 1..s.numNodes :
          /\ s.adjacencyList[c].parent # nil
          /\ s.adjacencyList[c].excess = 0
          /\ s.arcList[s.adjacencyList[c].arcToParent].direction = 1
          /\ s.arcList[s.adjacencyList[c].arcToParent].from = c
          /\ s.arcList[s.adjacencyList[c].arcToParent].capacity > 0
          /\ s.arcList[s.adjacencyList[c].arcToParent].flow
               = s.arcList[s.adjacencyList[c].arcToParent].capacity
    /\ \E d \in 1..s.numNodes, a \in 1..Len(s.arcList) :
          /\ s.adjacencyList[d].parent = nil
          /\ s.adjacencyList[d].excess > 0
          /\ s.arcList[a].from = d
          /\ s.arcList[a].to # s.sink
          /\ s.arcList[a].direction = 0
          /\ s.arcList[a].capacity > 0
          /\ s.arcList[a].flow = s.arcList[a].capacity

\* the path from n up to the root of its tree in S, n first
RECURSIVE PathUp(_, _, _)
PathUp(S, n, fuel) ==
    IF n = nil \/ fuel = 0 THEN << >>
    ELSE << n >> \o PathUp(S, S.adjacencyList[n].parent, fuel - 1)

\* what C29 states of merge(parent, child, newArc) called in B and ending in A
Merged(B, A, parent, child, newArc) ==
    LET path == PathUp(B, child, B.numNodes + 1) IN
    /\ A.fault = ""
    /\ A.adjacencyList[child].parent = parent
    /\ A.adjacencyList[child].arcToParent = newArc
    /\ \A j \in 2..Len(path) :
          LET old == B.adjacencyList[path[j - 1]].arcToParent IN
          /\ A.adjacencyList[path[j]].parent = path[j - 1]
          /\ A.adjacencyList[path[j]].arcToParent = old
          /\ A.arcList[old].direction = 1 - B.arcList[old].direction
    /\ \A n \in 1..B.numNodes :
          (\A j \in 1..Len(path) : path[j] # n) =>
              /\ A.adjacencyList[n].parent = B.adjacencyList[n].parent
              /\ A.adjacencyList[n].arcToParent = B.adjacencyList[n].arcToParent
    /\ A.stats.Mergers = B.stats.Mergers + 1

\* processRoot is about to run and will call merge with the child in one tree
\* and the parent in another
MergeDue ==
    /\ pc = "root"
    /\ s.fault = ""
    /\ mergeOf(s, strongRoot).out # nil
    /\ mergeOf(s, strongRoot).S.fault = ""
    /\ LET m == mergeOf(s, strongRoot) IN
       \A j \in 1..Len(PathUp(m.S, m.child, s.numNodes + 1)) :
           PathUp(m.S, m.child, s.numNodes + 1)[j] # m.weakNode

\* C29: merge(parent, child, newArc) makes child a child of parent over
\* newArc, turns every tree edge of the old path from child to its root
\* around with the direction of its arc toggled, leaves parent and
\* arcToParent of every other node alone and adds 1 to mergers
C29_MergeInvertsPath ==
    MergeDue =>
        LET m == mergeOf(s, strongRoot) IN
        Merged(m.S, merge(m.S, m.weakNode, m.child, m.out), m.weakNode, m.child, m.out)

\* processRoot is about to merge a node two tree edges below its root into a
\* tree of at least two nodes
C29_Witness ==
    /\ MergeDue
    /\ solves = 0
    /\ LET m == mergeOf(s, strongRoot) IN
       /\ Len(PathUp(m.S, m.child, s.numNodes + 1)) >= 3
       /\ \/ m.S.adjacencyList[m.weakNode].parent # nil
          \/ m.S.adjacencyList[m.weakNode].childList # nil

\* C30: after any insertions and head removals on one bucket the list from
\* start holds exactly the nodes inserted and not yet removed, oldest first
\* with FifoBuckets and newest first without, and every removal returned the
\* oldest node with FifoBuckets and the newest without
C30_BucketOrder ==
    pc = "bucket" =>
        /\ s.fault = ""
        /\ strongRoot = tempNode
        /\ Len(Bucket(s, 1)) = Len(input)
        /\ \A k \in 1..Len(input) :
              Bucket(s, 1)[k] = IF s.ctx.FifoBuckets THEN input[k]
                               ELSE input[Len(input) + 1 - k]

\* a FIFO bucket that was drained holds three nodes again after a further
\* removal
C30_Witness ==
    /\ pc = "bucket"
    /\ s.ctx.FifoBuckets
    /\ err
    /\ solves >= 3
    /\ Len(input) = 3
    /\ strongRoot # nil

\* the set of the nodes of a list
Range(q) == { q[k] : k \in 1..Len(q) }

\* the parentless nodes other than the source and the sink whose excess is
\* positive and whose label is i
StrongRootsAt(S, i) ==
    { n \in 1..S.numNodes :
        /\ n # S.source /\ n # S.sink
        /\ S.adjacencyList[n].parent = nil
        /\ S.adjacencyList[n].excess > 0
        /\ S.adjacencyList[n].label = i }

\* the root flowPhaseOne holds between get*StrongRoot and processRoot
Held == IF pc = "root" THEN {strongRoot} ELSE {}

\* bucket i holds each strong root of label i once, the root that is held for
\* processRoot excepted, and nothing else
BucketsHoldStrongRoots(S) ==
    \A i \in 0..(S.numNodes - 1) :
        /\ Range(Bucket(S, i)) = StrongRootsAt(S, i) \ Held
        /\ NoDuplicate(Bucket(S, i))

\* C31: at every boundary between the operations of phase one, for every
\* i < numNodes the nodes linked in bucket i are exactly the parentless nodes
\* other than the source and the sink with positive excess and label i (the
\* root about to be processed is in no bucket)
C31_BucketsHoldStrongRoots == Boundary => BucketsHoldStrongRoots(s)

\* after pushes and relabels two buckets hold a strong root each, one of them
\* a bucket above 1, while a root without excess is in no bucket
C31_Witness ==
    /\ pc = "phase1"
    /\ s.stats.Pushes > 1
    /\ \E i, j \in 1..(s.numNodes - 1) :
          /\ i > j
          /\ Bucket(s, i) # << >>
          /\ Bucket(s, j) # << >>
    /\ \E n \in 1..s.numNodes :
          /\ n # s.source /\ n # s.sink
          /\ s.adjacencyList[n].parent = nil
          /\ s.adjacencyList[n].excess = 0
          /\ \A i \in 0..(s.numNodes - 1) : n \notin Range(Bucket(s, i))

\* the amounts pushExcess moves from current on, arc after arc of the path:
\* the excess of the child when the arc can take it, the residual capacity
\* (upward) or the flow (downward) of the arc when it cannot
RECURSIVE PushAmounts(_, _, _)
PushAmounts(S, current, fuel) ==
    IF S.fault # "" \/ fuel = 0 THEN << >>
    ELSE LET c == S.adjacencyList[current] IN
         IF c.excess # 0 /\ c.parent # nil /\ c.arcToParent # nil
         THEN LET a == S.arcList[c.arcToParent]
                  room == IF a.direction # 0 THEN a.capacity - a.flow ELSE a.flow
                  S1 == IF a.direction # 0
                        THEN pushUpward(S, c.arcToParent, current, c.parent, room)
                        ELSE pushDownward(S, c.arcToParent, current, c.parent, room)
              IN  << IF room >= c.excess THEN c.excess ELSE room >>
                     \o PushAmounts(S1, c.parent, fuel - 1)
         ELSE << >>

\* the Session at the pushExcess call processRoot is about to make
AtPushExcess ==
    LET m == mergeOf(s, strongRoot) IN merge(m.S, m.weakNode, m.child, m.out)

\* C32: at every boundary between the operations of phase one every node that
\* has a parent has excess 0, and the pushExcess call of a processRoot that is
\* about to merge moves no negative amount along any arc of the path
C32_ExcessOnlyAtRoots ==
    Boundary =>
        /\ \A n \in 1..s.numNodes :
              s.adjacencyList[n].parent # nil => s.adjacencyList[n].excess = 0
        /\ (pc = "root" /\ mergeOf(s, strongRoot).out # nil) =>
              \A k \in 1..Len(PushAmounts(AtPushExcess, strongRoot, Fuel)) :
                  PushAmounts(AtPushExcess, strongRoot, Fuel)[k] >= 0

\* processRoot is about to push along a path of at least three arcs while a
\* root outside that tree holds a deficit
C32_Witness ==
    /\ pc = "root"
    /\ mergeOf(s, strongRoot).out # nil
    /\ Len(PushAmounts(AtPushExcess, strongRoot, Fuel)) >= 3
    /\ \E n \in 1..s.numNodes :
          /\ n # s.source /\ n # s.sink
          /\ s.adjacencyList[n].parent = nil
          /\ s.adjacencyList[n].excess < 0
    /\ \E n \in 1..s.numNodes : s.adjacencyList[n].parent # nil

\* the child list of n in S
ChildList(S, n) == ListFrom(S, S.adjacencyList[n].childList, S.numNodes + 1)

\* the parent pointers of S form a forest whose child lists agree with them:
\* no node is its own ancestor, v is on the child list of p exactly when
\* v.parent == p, and no child list holds a node twice
Forest(S) ==
    /\ \A n \in 1..S.numNodes :
          /\ Len(PathUp(S, n, S.numNodes + 1)) <= S.numNodes
          /\ NoDuplicate(PathUp(S, n, S.numNodes + 1))
    /\ \A p, v \in 1..S.numNodes :
          v \in Range(ChildList(S, p)) <=> S.adjacencyList[v].parent = p
    /\ \A p \in 1..S.numNodes :
          /\ Len(ChildList(S, p)) <= S.numNodes
          /\ NoDuplicate(ChildList(S, p))

\* the weak node of the merge that is due is outside the tree of the strong
\* root being processed
WeakNodeOutside ==
    LET m == mergeOf(s, strongRoot) IN
    (pc = "root" /\ m.out # nil /\ m.S.fault = "") =>
        ~InTree(m.S, m.weakNode, strongRoot, s.numNodes + 1)

\* C33: at every boundary between the operations of phase one and after the
\* merge of every processRoot the parent pointers form a forest whose child
\* lists agree with them, and findWeakNode returns no weak node that lies in
\* the tree of the strong root being processed
C33_Forest ==
    Boundary =>
        /\ Forest(s)
        /\ WeakNodeOutside
        /\ (pc = "root" /\ mergeOf(s, strongRoot).out # nil) => Forest(AtPushExcess)

\* processRoot is about to merge a node below the root of its tree into a
\* tree of several nodes, after earlier merges
C33_Witness ==
    /\ pc = "root"
    /\ mergeOf(s, strongRoot).out # nil
    /\ mergeOf(s, strongRoot).child # strongRoot
    /\ s.adjacencyList[mergeOf(s, strongRoot).weakNode].childList # nil
    /\ s.stats.Mergers >= 2

\* no node of S has a label below the label of its parent
LabelsRiseDownward(S) ==
    \A n \in 1..S.numNodes :
        LET p == S.adjacencyList[n].parent IN
        p # nil => S.adjacencyList[n].label >= S.adjacencyList[p].label

\* C34: at every boundary between the operations of phase one every node that
\* has a parent has a label at least the label of its parent
C34_LabelsRiseDownward == Boundary => LabelsRiseDownward(s)

\* in highest-label mode a root promoted from bucket 0 to label 1 is about to
\* be processed with a child below it, after nodes have been relabeled to 2
\* and above
C34_Witness ==
    /\ pc = "root"
    /\ ~s.ctx.LowestLabel
    /\ s.highestStrongLabel = 1
    /\ s.adjacencyList[strongRoot].label = 1
    /\ s.adjacencyList[strongRoot].childList # nil
    /\ \E n \in 1..s.numNodes :
          /\ n # s.source
          /\ s.adjacencyList[n].label \in 2..(s.numNodes - 1)
          /\ s.adjacencyList[n].parent # nil

\* the findWeakNode calls of processRootLoop that return none, from the state
\* where strongNode is being scanned: the Session at each call and the node
RECURSIVE missesOfLoop(_, _, _, _)
missesOfLoop(S, n, strongNode, fuel) ==
    IF S.fault # "" \/ fuel = 0 \/ strongNode = nil THEN << >>
    ELSE IF S.adjacencyList[strongNode].nextScan # nil
    THEN LET temp == S.adjacencyList[strongNode].nextScan
             S1 == [S EXCEPT !.adjacencyList[strongNode].nextScan = S.adjacencyList[temp].next]
             S2 == [S1 EXCEPT !.adjacencyList[temp].nextScan = S1.adjacencyList[temp].childList]
             r == findWeakNode(S2, temp)
         IN  IF r.out # nil \/ r.S.fault # "" THEN << >>
             ELSE << [S |-> S2, n |-> temp] >>
                     \o missesOfLoop(checkChildren(r.S, temp), n, temp, fuel - 1)
    ELSE LET p == S.adjacencyList[strongNode].parent IN
         IF p # nil
         THEN missesOfLoop(checkChildren(S, p), n, p, fuel - 1)
         ELSE << >>

\* the findWeakNode calls of processRoot(n) that return none
missesOf(S, n) ==
    IF S.fault # "" THEN << >>
    ELSE LET S1 == [S EXCEPT !.adjacencyList[n].nextScan = S.adjacencyList[n].childList]
             r == findWeakNode(S1, n)
         IN  IF r.out # nil \/ r.S.fault # "" THEN << >>
             ELSE << [S |-> S1, n |-> n] >>
                     \o missesOfLoop(checkChildren(r.S, n), n, n, Fuel)

\* entry k of the out-of-tree pool of n has an endpoint with the label
\* findWeakNode looks for
Eligible(S, n, k) ==
    LET a == S.adjacencyList[n].outOfTree[k] IN
    /\ a # nil
    /\ \/ S.adjacencyList[S.arcList[a].to].label = TargetLabel(S)
       \/ S.adjacencyList[S.arcList[a].from].label = TargetLabel(S)

\* no entry of the live part of the pool of n is eligible
NoneEligible(S, n) ==
    \A k \in 1..S.adjacencyList[n].numberOutOfTree : ~Eligible(S, n, k)

\* C35: whenever a findWeakNode call of processRoot returns none, no arc of
\* outOfTree[0..numberOutOfTree) of the node has an endpoint with the label
\* looked for, the entries before nextArc included
C35_MissIsSound ==
    pc = "root" =>
        \A k \in 1..Len(missesOf(s, strongRoot)) :
            NoneEligible(missesOf(s, strongRoot)[k].S, missesOf(s, strongRoot)[k].n)

\* a findWeakNode call of processRoot returns none for a node whose scan
\* resumes behind skipped entries and still passes over an entry, in a pool
\* that has lost an arc to a merge
C35_Witness ==
    /\ pc = "root"
    /\ \E k \in 1..Len(missesOf(s, strongRoot)) :
          LET m == missesOf(s, strongRoot)[k]
              nd == m.S.adjacencyList[m.n]
          IN  /\ nd.nextArc > 0
              /\ nd.nextArc < nd.numberOutOfTree
              /\ nd.numberOutOfTree < nd.numAdjacent

\* arcList[i] is placed in a pool at load: it is not dropped and does not go
\* from the source to the sink
Placed(S, i) ==
    /\ ~Dropped(S, i)
    /\ ~(S.arcList[i].from = S.source /\ S.arcList[i].to = S.sink)

\* the nodes whose arcToParent field is arc i
ArcToParentOf(S, i) ==
    { n \in 1..S.numNodes : S.adjacencyList[n].arcToParent = i }

\* the nodes that hang on their parent by arc i
TreeArcOf(S, i) ==
    { n \in ArcToParentOf(S, i) : S.adjacencyList[n].parent # nil }

\* the slots of the live parts of the out-of-tree pools that hold arc i
PoolSlotsOf(S, i) ==
    { sl \in (1..S.numNodes) \X (1..Len(S.arcList)) :
        /\ sl[2] <= S.adjacencyList[sl[1]].numberOutOfTree
        /\ S.adjacencyList[sl[1]].outOfTree[sl[2]] = i }

\* an arc in a pool is in the pool of an endpoint; in the pool of its from-node
\* (other than the source) it has flow 0 and direction 1, in the pool of its
\* to-node (other than the sink) flow == capacity and direction 0
PoolArcsAtRest(S, i) ==
    \A sl \in PoolSlotsOf(S, i) :
        LET a == S.arcList[i] IN
        /\ sl[1] \in {a.from, a.to}
        /\ (sl[1] = a.from /\ sl[1] # S.source) => (a.flow = 0 /\ a.direction = 1)
        /\ (sl[1] = a.to /\ sl[1] # S.sink) => (a.flow = a.capacity /\ a.direction = 0)

\* C36, as stated: during phase one every placed arc is the arcToParent of
\* exactly one node or in exactly one slot of the pool of one of its
\* endpoints, never both, with the flow and direction of its pool
C36_TreeOrPool ==
    Boundary =>
        \A i \in 1..Len(s.arcList) :
            Placed(s, i) =>
                /\ Cardinality(ArcToParentOf(s, i)) + Cardinality(PoolSlotsOf(s, i)) = 1
                /\ PoolArcsAtRest(s, i)

\* C36 for the nodes that have a parent: during phase one every placed arc is
\* the arcToParent of exactly one node that has a parent or in exactly one
\* slot of the pool of one of its endpoints, never both, with the flow and
\* direction of its pool
C36_TreeArcOrPool ==
    Boundary =>
        \A i \in 1..Len(s.arcList) :
            Placed(s, i) =>
                /\ Cardinality(TreeArcOf(s, i)) + Cardinality(PoolSlotsOf(s, i)) = 1
                /\ PoolArcsAtRest(s, i)

\* after a saturating push a node hangs on its parent by an arc while a
\* detached node still names the arc it hung by, which is in the pool of its
\* to-node
C36_Witness ==
    /\ pc = "phase1"
    /\ s.stats.Pushes > 1
    /\ \E i \in 1..Len(s.arcList) : Placed(s, i) /\ TreeArcOf(s, i) # {}
    /\ \E i \in 1..Len(s.arcList) :
          /\ Placed(s, i)
          /\ ArcToParentOf(s, i) # {}
          /\ \E sl \in PoolSlotsOf(s, i) : sl[1] = s.arcList[i].to /\ sl[1] # s.sink

\* the buckets of S the scan of the policy does not visit: those above
\* highestStrongLabel, or those from 1 up to below lowestStrongLabel
Beyond(S) ==
    IF S.ctx.LowestLabel
    THEN { i \in 1..(S.numNodes - 1) : i < S.lowestStrongLabel }
    ELSE { i \in 1..(S.numNodes - 1) : i > S.highestStrongLabel }

\* no strong root lies beyond the cursor at a call of get*StrongRoot, and a
\* highest-label phase one has ended with every bucket empty
CursorCoversRoots ==
    /\ pc = "phase1" => \A i \in Beyond(s) : s.strongRoots[i].start = nil
    /\ (pc = "recover" /\ ~s.ctx.LowestLabel) =>
          \A i \in 0..(s.numNodes - 1) : s.strongRoots[i].start = nil

\* C37: at each call of getHighestStrongRoot no bucket above highestStrongLabel
\* holds a node, at each call of getLowestStrongRoot no bucket from 1 up to
\* below lowestStrongLabel holds a node, and a highest-label phase one ends
\* only when every bucket is empty
C37_CursorCoversRoots == CursorCoversRoots

\* C37 for the first solve of a Session
C37_OnFirstSolve == solves = 0 => CursorCoversRoots

\* C38: no step of a solve indexes strongRoots or labelCount at numNodes or
\* above
C38_IndexesBelowNumNodes ==
    s.fault \notin {"index: strongRoots", "index: labelCount"}

\* C38 for the first solve of a Session
C38_OnFirstSolve ==
    solves = 0 => s.fault \notin {"index: strongRoots", "index: labelCount"}

\* the output of the call on a writer that never fails
Unfailing == process(readDimacsFile(NewSession(s.ctx), input), Buffer, "").w.lines

\* the writer failed on a write of the call
WriteFailed == Returned /\ s.fault = "" /\ w.err

\* the writer failed on a write of checkOptimality
FailedInCheckOptimality ==
    /\ WriteFailed
    /\ Len(w.lines) >= Len(resultHeader(s, ""))
    /\ Len(w.lines) < Len(resultHeader(s, "")) + Len(checkOptimalityLines(s))

\* C39: if the writer fails on a write made while producing the result, the
\* writes of checkOptimality included, the call returns an error and writes
\* nothing after the write that failed
C39_WriteErrorReturned ==
    WriteFailed =>
        /\ err
        /\ w.lines = SubSeq(Unfailing, 1, Len(w.lines))
        /\ Len(w.lines) < Len(Unfailing)

\* the same for the writes result makes outside checkOptimality
C39_OutsideCheckOptimality ==
    (WriteFailed /\ ~FailedInCheckOptimality) =>
        /\ err
        /\ w.lines = SubSeq(Unfailing, 1, Len(w.lines))
        /\ Len(w.lines) < Len(Unfailing)

\* a write of checkOptimality fails: no error is returned, and nothing is
\* written after it
C39_InsideCheckOptimality ==
    FailedInCheckOptimality =>
        /\ ~err
        /\ w.lines = SubSeq(Unfailing, 1, Len(w.lines))

====
